---- MODULE Spec2Model ----
(***************************************************************************)
(* State-machine model of the chat subsystem (current generation) of the   *)
(* FastAPI websocket example: routes/chat/chat_service.py (RateLimiter,    *)
(* MessageQueue, SQLiteChatMessageHistory, ChatService) and                *)
(* routes/chat/chat_controller.py (ConnectionManager, websocket_endpoint). *)
(*                                                                         *)
(* Time is counted in ticks of 1/TicksPerSecond second.  Token counts of   *)
(* the rate limiter are floats in the code; the model keeps them exactly,  *)
(* scaled by TicksPerSecond (one token = TicksPerSecond units), so that a  *)
(* fractional residual is representable.  Float rounding is not modelled.  *)
(***************************************************************************)
EXTENDS Integers, Sequences, FiniteSets, TLC

VARIABLES
    \* ---- the chat server process ----------------------------------------
    manager,             \* ConnectionManager: active_connections, session_models
    chat_service,        \* ChatService: _message_queues, _rate_limiters,
                         \*   _processing_tasks, _chat_histories
    tasks,               \* the asyncio tasks running process_queued_messages
    sock,                \* per socket: its websocket_endpoint handler and its peer
    frames,              \* the `model` of each text frame received so far and
                         \*   what became of the frame, in order of receipt
                         \*   (frames are numbered from 1)
    wire,                \* the response put on a socket by the last step, if any
    \* ---- the clock and the datastore file (chat_history.db) -------------
    now,                 \* wall clock, in ticks
    db,                  \* rows of table `messages`
    nextId,              \* next AUTOINCREMENT id
    \* ---- a stand-alone RateLimiter ---------------------------------------
    lim,                 \* the limiter object
    mark,                \* state right after creation / the last failed acquire
    lastAcq,             \* the last acquire() call and what preceded it
    \* ---- a stand-alone MessageQueue --------------------------------------
    mq,                  \* the deque
    accepted,            \* messages whose put succeeded, in order
    got,                 \* messages returned by get, in order
    qres,                \* the last put/get call and its result
    \* ---- a stand-alone SQLiteChatMessageHistory use ---------------------
    nadds,               \* add_message calls per session since it was empty
    ever,                \* ids inserted per session since it was empty
    \* ---- the gateway passthrough (routes/openrouter_websocket) ----------
    line,                \* the last line given to _parse_sse_line
    parsed,              \* what _parse_sse_line returned for it
    openrouter_service,  \* the module-level OpenRouterService: _session, request_id
    conn,                \* per /openrouter socket: its handler and its request
    posted,              \* requests handed to the gateway (session.post calls)
    nread,               \* lines read from gateway responses so far
    call,                \* the handler step taken last
    \* ---- the rest of the application -----------------------------------
    boot,                \* the start of the process: import of main.py
    weather,             \* the last POST /weatherAlerts request and its answer
    auth,                \* the last POST /token request and its answer
    state_service        \* the module-level WebSocketStateService: connections

mainVars == <<manager, chat_service, tasks, sock, frames, wire>>
compVars == <<lim, mark, lastAcq, mq, accepted, got, qres, nadds, ever>>
sseVars == <<line, parsed>>
handlerVars == <<openrouter_service, conn, posted, nread, call>>
gatewayVars == <<sseVars, handlerVars>>
appVars == <<boot, weather, auth, state_service>>
vars == <<manager, chat_service, tasks, sock, frames, wire, now, db, nextId,
          lim, mark, lastAcq, mq, accepted, got, qres, nadds, ever,
          line, parsed, openrouter_service, conn, posted, nread, call, boot, weather,
          auth, state_service>>

\* Python's None, as a value that compares unequal to every message
None == [none |-> TRUE]

\* ChatMessage(content=..., role="human", session_id=...); its timestamp field
\* only feeds the processing_time_ms metric and is left out
ChatMessage(content, session_id) ==
    [content |-> content, role |-> "human", session_id |-> session_id]

Min(a, b) == IF a <= b THEN a ELSE b

(***************************************************************************)
(* Bounds of the model.                                                    *)
(***************************************************************************)
TicksPerSecond == 4      \* clock resolution
LimMaxTime == 12         \* last tick of the stand-alone limiter's clock
QueueMaxsize == 2        \* maxsize of the stand-alone queue
SessionQueueMaxsize == 1 \* maxsize of the sessions' queues (100 in the code)
MaxPuts == 7             \* put() calls on the stand-alone queue
MaxMessages == 2         \* max_messages of the history (50 in the code)
HistMaxRows == 4         \* rows ever inserted in the stand-alone history
HistMaxSeconds == 1      \* last second of the stand-alone history's clock
SessionBurst == 1       \* capacity of the sessions' limiters (5 in the code)
MaxFrames == 2           \* text frames received by the server
MaxChunks == 2           \* chunks streamed per model call
MaxSeconds == 1          \* last second of the server's clock

Sessions == {"s1", "s2"}

(***************************************************************************)
(* RateLimiter (chat_service.py 16-37).                                    *)
(***************************************************************************)
SessionRate == 2         \* RateLimiter(rate=2.0, capacity=5)
SessionCapacity == 5

RateLimiter(rate, capacity, t) ==
    [rate |-> rate, capacity |-> capacity,
     tokens |-> capacity * TicksPerSecond, last_update |-> t]

\* tokens + time_passed * rate, without the min(capacity, ...)
acquire_uncapped(l, t) ==
    LET time_passed == t - l.last_update
        tokens == l.tokens + time_passed * l.rate
    IN  IF tokens >= TicksPerSecond
        THEN [ok |-> TRUE,
              lim |-> [l EXCEPT !.tokens = tokens - TicksPerSecond, !.last_update = t]]
        ELSE [ok |-> FALSE,
              lim |-> [l EXCEPT !.tokens = tokens, !.last_update = t]]

\* acquire(): the result and the limiter after the call made at clock reading t
acquire(l, t) ==
    LET time_passed == t - l.last_update
        tokens == Min(l.capacity * TicksPerSecond, l.tokens + time_passed * l.rate)
    IN  IF tokens >= TicksPerSecond
        THEN [ok |-> TRUE,
              lim |-> [l EXCEPT !.tokens = tokens - TicksPerSecond, !.last_update = t]]
        ELSE [ok |-> FALSE,
              lim |-> [l EXCEPT !.tokens = tokens, !.last_update = t]]

(***************************************************************************)
(* MessageQueue (chat_service.py 40-61).                                   *)
(***************************************************************************)
\* collections.deque(maxlen=n).append: a full deque drops its oldest entry
deque_append(q, maxlen, m) ==
    IF Len(q) >= maxlen
    THEN (IF maxlen = 0 THEN q ELSE Append(Tail(q), m))
    ELSE Append(q, m)

\* put without the length test: the bare deque append
put_unguarded(q, maxlen, m) == [ok |-> TRUE, queue |-> deque_append(q, maxlen, m)]

put(q, maxlen, m) ==
    IF Len(q) < maxlen
    THEN [ok |-> TRUE, queue |-> deque_append(q, maxlen, m)]
    ELSE [ok |-> FALSE, queue |-> q]

get(q) ==
    IF q = <<>>
    THEN [message |-> None, queue |-> q]           \* IndexError -> None
    ELSE [message |-> Head(q), queue |-> Tail(q)]  \* popleft

(***************************************************************************)
(* SQLiteChatMessageHistory (chat_service.py 64-132).                      *)
(* A row is [id, session_id, role, content, created_at]; created_at is     *)
(* CURRENT_TIMESTAMP, which has a resolution of one second.                *)
(***************************************************************************)
Roles == {"human", "ai", "system"}

CURRENT_TIMESTAMP(t) == t \div TicksPerSecond

SessionRows(rows, s) == {r \in rows : r.session_id = s}

\* SELECT id ... ORDER BY created_at ASC LIMIT n: the sets of rows the query may
\* return.  Rows are ordered by created_at alone; the order of rows with equal
\* created_at is not determined by the statement.
OldestFirst(R, n) ==
    {D \in SUBSET R :
        /\ Cardinality(D) = Min(n, Cardinality(R))
        /\ \A d \in D : \A k \in R \ D : d.created_at <= k.created_at}

\* the compaction deleting one row too few
add_message_off_by_one(rows, s, role, content, id, t, max_messages) ==
    LET inserted == rows \cup {[id |-> id, session_id |-> s, role |-> role,
                                content |-> content,
                                created_at |-> CURRENT_TIMESTAMP(t)]}
        count == Cardinality(SessionRows(inserted, s))
    IN  IF count > max_messages + 1
        THEN {inserted \ D : D \in OldestFirst(SessionRows(inserted, s), count - max_messages - 1)}
        ELSE {inserted}

\* the compaction choosing among the rows of every session
add_message_any_session(rows, s, role, content, id, t, max_messages) ==
    LET inserted == rows \cup {[id |-> id, session_id |-> s, role |-> role,
                                content |-> content,
                                created_at |-> CURRENT_TIMESTAMP(t)]}
        count == Cardinality(SessionRows(inserted, s))
    IN  IF count > max_messages
        THEN {inserted \ D : D \in OldestFirst(inserted, count - max_messages)}
        ELSE {inserted}

\* add_message: the datastore contents the call may leave
add_message(rows, s, role, content, id, t, max_messages) ==
    LET inserted == rows \cup {[id |-> id, session_id |-> s, role |-> role,
                                content |-> content,
                                created_at |-> CURRENT_TIMESTAMP(t)]}
        count == Cardinality(SessionRows(inserted, s))
    IN  IF count > max_messages
        THEN {inserted \ D : D \in OldestFirst(SessionRows(inserted, s), count - max_messages)}
        ELSE {inserted}

clear(rows, s) == rows \ SessionRows(rows, s)

\* the orders in which SELECT ... ORDER BY created_at may return the rows R
Orderings(R) ==
    LET n == Cardinality(R)
    IN  {f \in [1..n -> R] :
            /\ \A i, j \in 1..n : i # j => f[i] # f[j]
            /\ \A i, j \in 1..n : i < j => f[i].created_at <= f[j].created_at}

IsChatRole(r) == r.role \in {"human", "ai"}

\* HumanMessage(content=...) / AIMessage(content=...)
ToMessage(r) == [type |-> r.role, content |-> r.content]

\* the `messages` property: the lists the read may return (rows of another role
\* are skipped)
messages(rows, s) ==
    {LET kept == SelectSeq(f, IsChatRole)
     IN  [i \in 1..Len(kept) |-> ToMessage(kept[i])] : f \in Orderings(SessionRows(rows, s))}

(***************************************************************************)
(* Python dicts, as functions on their key sets.                           *)
(***************************************************************************)
EmptyDict == [k \in {} |-> 0]

DictSet(d, k, v) == [x \in DOMAIN d \cup {k} |-> IF x = k THEN v ELSE d[x]]

DictPop(d, k) == [x \in DOMAIN d \ {k} |-> d[x]]

(***************************************************************************)
(* The model registry (chat_models.py 18-24) and create_model              *)
(* (chat_controller.py 30-53).                                             *)
(***************************************************************************)
ChatAvailableModels ==
    {"google/gemini-flash-1.5", "qwen/qwen2.5-vl-72b-instruct:free",
     "google/gemini-2.0-flash-001", "deepseek/deepseek-r1-distill-llama-70b",
     "mistralai/codestral-2501"}

GEMINI_FLASH_1_5 == "google/gemini-flash-1.5"

\* ValueError("Model ... is not supported") for a name outside the enumeration
create_model(model_name) ==
    IF model_name \notin ChatAvailableModels
    THEN [error |-> TRUE, model |-> model_name]
    ELSE [error |-> FALSE, model |-> model_name]

(***************************************************************************)
(* asyncio tasks.  Task.cancel() makes the task's pending await raise      *)
(* CancelledError when the task is next resumed; process_queued_messages   *)
(* swallows it (or lets it escape from its error handler), so a cancelled  *)
(* consumer executes no further statement: the model ends it at once.      *)
(* cancel() on a task that is already done does nothing.                   *)
(***************************************************************************)
NoSocket == "-"

NewTask(session_id, model) ==
    [session_id |-> session_id, model |-> model, state |-> "running", pc |-> "loop",
     message |-> None, last_response |-> None,
     cur |-> NoSocket, sent |-> {}, size |-> 0]

\* what is left of a task that is over: the locals of its coroutine are gone
Ended(rec, state) ==
    [NewTask(rec.session_id, "-") EXCEPT !.state = state, !.pc = "end"]

\* Task.cancel() that the consumer does not notice
cancel_ignored(tk, id) == tk

cancel(tk, id) ==
    IF tk[id].state = "running" THEN [tk EXCEPT ![id] = Ended(@, "cancelled")] ELSE tk

(***************************************************************************)
(* ChatService (chat_service.py 135-168, 248-255).                         *)
(***************************************************************************)
initialize_session(cs, session_id, t) ==
    IF session_id \notin DOMAIN cs.message_queues
    THEN [cs EXCEPT
            !.message_queues = DictSet(@, session_id, <<>>),
            !.rate_limiters = DictSet(@, session_id,
                                  RateLimiter(SessionRate, SessionBurst, t)),
            !.chat_histories = @ \cup {session_id}]
    ELSE cs

\* cleanup_session forgetting to cancel the consumer task
cleanup_session_no_cancel(cs, tk, session_id) ==
    [chat_service |-> [cs EXCEPT !.message_queues = DictPop(@, session_id),
                                 !.rate_limiters = DictPop(@, session_id),
                                 !.processing_tasks = DictPop(@, session_id)],
     tasks |-> tk]

\* cleanup_session leaving the rate limiter behind
cleanup_session_keep_limiter(cs, tk, session_id) ==
    [chat_service |-> [cs EXCEPT !.message_queues = DictPop(@, session_id),
                                 !.processing_tasks = DictPop(@, session_id)],
     tasks |-> IF session_id \in DOMAIN cs.processing_tasks
               THEN cancel(tk, cs.processing_tasks[session_id]) ELSE tk]

cleanup_session(cs, tk, session_id) ==
    LET popped == [cs EXCEPT !.message_queues = DictPop(@, session_id),
                             !.rate_limiters = DictPop(@, session_id)]
    IN  IF session_id \in DOMAIN cs.processing_tasks
        THEN [chat_service |-> [popped EXCEPT !.processing_tasks = DictPop(@, session_id)],
              tasks |-> cancel(tk, cs.processing_tasks[session_id])]
        ELSE [chat_service |-> popped, tasks |-> tk]

\* `rate_limiter and await rate_limiter.acquire()`
can_accept_message(cs, session_id, t) ==
    IF session_id \notin DOMAIN cs.rate_limiters
    THEN [ok |-> FALSE, chat_service |-> cs]
    ELSE LET r == acquire(cs.rate_limiters[session_id], t)
         IN  [ok |-> r.ok,
              chat_service |-> [cs EXCEPT !.rate_limiters[session_id] = r.lim]]

\* `queue and await queue.put(message)`
queue_message(cs, message) ==
    IF message.session_id \notin DOMAIN cs.message_queues
    THEN [ok |-> FALSE, chat_service |-> cs]
    ELSE LET r == put(cs.message_queues[message.session_id], SessionQueueMaxsize, message)
         IN  [ok |-> r.ok,
              chat_service |-> [cs EXCEPT !.message_queues[message.session_id] = r.queue]]

\* start_processing_task without the `not in self._processing_tasks` test
start_processing_task_always(cs, tk, session_id, model, id) ==
    [chat_service |-> [cs EXCEPT !.processing_tasks = DictSet(@, session_id, id)],
     tasks |-> DictSet(tk, id, NewTask(session_id, model))]

\* start_processing_task replacing a registered task that is over
start_processing_task_restart(cs, tk, session_id, model, id) ==
    IF session_id \notin DOMAIN cs.processing_tasks
       \/ tk[cs.processing_tasks[session_id]].state # "running"
    THEN [chat_service |-> [cs EXCEPT !.processing_tasks = DictSet(@, session_id, id)],
          tasks |-> DictSet(tk, id, NewTask(session_id, model))]
    ELSE [chat_service |-> cs, tasks |-> tk]

\* asyncio.create_task(...) makes a new task; the model names it `id`
start_processing_task(cs, tk, session_id, model, id) ==
    IF session_id \notin DOMAIN cs.processing_tasks
    THEN [chat_service |-> [cs EXCEPT !.processing_tasks = DictSet(@, session_id, id)],
          tasks |-> DictSet(tk, id, NewTask(session_id, model))]
    ELSE [chat_service |-> cs, tasks |-> tk]

(***************************************************************************)
(* ConnectionManager (chat_controller.py 60-103).                          *)
(***************************************************************************)
\* connect, after `await websocket.accept()` has returned
connect(m, cs, websocket, session_id, t) ==
    LET first == session_id \notin DOMAIN m.active_connections
        conns == IF first THEN {} ELSE m.active_connections[session_id]
    IN  [manager |-> [m EXCEPT !.active_connections =
                                   DictSet(@, session_id, conns \cup {websocket})],
         chat_service |-> IF first THEN initialize_session(cs, session_id, t) ELSE cs]

disconnect(m, cs, tk, websocket, session_id) ==
    IF session_id \in DOMAIN m.active_connections
    THEN LET remaining == m.active_connections[session_id] \ {websocket}
         IN  IF remaining = {}
             THEN LET c == cleanup_session(cs, tk, session_id)
                  IN  [manager |-> [m EXCEPT
                                      !.active_connections = DictPop(@, session_id),
                                      !.session_models = DictPop(@, session_id)],
                       chat_service |-> c.chat_service, tasks |-> c.tasks]
             ELSE [manager |-> [m EXCEPT !.active_connections[session_id] = remaining],
                   chat_service |-> cs, tasks |-> tk]
    ELSE [manager |-> m, chat_service |-> cs, tasks |-> tk]

\* get_or_create_model without the `not in self.session_models` test
get_or_create_model_uncached(m, session_id, model_name) ==
    LET c == create_model(model_name)
    IN  IF c.error
        THEN [error |-> TRUE, manager |-> m, model |-> model_name]
        ELSE [error |-> FALSE,
              manager |-> [m EXCEPT !.session_models =
                                       DictSet(@, session_id, c.model)],
              model |-> c.model]

get_or_create_model(m, session_id, model_name) ==
    IF session_id \notin DOMAIN m.session_models
    THEN LET c == create_model(model_name)
         IN  IF c.error
             THEN [error |-> TRUE, manager |-> m, model |-> model_name]
             ELSE [error |-> FALSE,
                   manager |-> [m EXCEPT !.session_models =
                                            DictSet(@, session_id, c.model)],
                   model |-> c.model]
    ELSE [error |-> FALSE, manager |-> m, model |-> m.session_models[session_id]]

(***************************************************************************)
(* websocket_endpoint (chat_controller.py 109-165): one handler per        *)
(* socket.  sock[w].st is the await the handler is suspended in:           *)
(*   idle                no handler (socket not connected)                 *)
(*   receive             websocket.receive_text()                          *)
(*   send_backpressure   send_text of the backpressure_applied response    *)
(*   send_queue_full     send_text of the queue_full response              *)
(*   send_general_error  send_text of the general_error response           *)
(*   aborted             the handler ended by an exception that escaped it *)
(* sock[w].peer says whether the client still holds the connection open.   *)
(***************************************************************************)
Sockets == {"w1", "w2"}

\* the sessions each client connects to
Routes(w) == IF w = "w1" THEN {"s1"} ELSE Sessions

IdleSock ==
    [st |-> "idle", session_id |-> "-", peer |-> "open"]

\* ChatResponse(message, session_id, metrics) as put on socket `to`
ChatResponse(to, session_id, error, content) ==
    [to |-> to, session_id |-> session_id, error |-> error, content |-> content]

NoContent == [frame |-> 0, chunk |-> 0]

NoWire == ChatResponse(NoSocket, "-", "none", NoContent)

\* the `model` values of the frames of the model: an enumerated identifier
\* (also the default of a frame without the field) and one that is not
\* enumerated
FrameModels == {GEMINI_FLASH_1_5, "unsupported/model"}

\* an inbound text frame: valid JSON with a "message" string and a model, or
\* a frame on which json.loads / message_data["message"] / ChatMessage raises
Payloads ==
    {[valid |-> TRUE, model |-> x] : x \in FrameModels}
        \cup {[valid |-> FALSE, model |-> "-"]}

\* what send_text may do: on an open connection the text is delivered; once
\* the peer is gone the server stack drops it silently, raises
\* WebSocketDisconnect, or raises another exception (RuntimeError, OSError)
SendOutcomes(peer) ==
    IF peer = "open" THEN {"delivered"} ELSE {"dropped", "disconnect", "error"}

\* the handler queueing the message before it asks the rate limiter
handle_frame_queue_first(m, cs, tk, session_id, payload, id, t) ==
    IF ~payload.valid
    THEN [next |-> "send_general_error", outcome |-> "exception",
          manager |-> m, chat_service |-> cs, tasks |-> tk]
    ELSE
    LET chat_message == ChatMessage([frame |-> id, chunk |-> 0], session_id)
        q == queue_message(cs, chat_message)
        a == can_accept_message(q.chat_service, session_id, t)
        g == get_or_create_model(m, session_id, payload.model)
        p == start_processing_task(a.chat_service, tk, session_id, g.model, id)
    IN  IF ~a.ok
        THEN [next |-> "send_backpressure", outcome |-> "backpressure_applied",
              manager |-> m, chat_service |-> a.chat_service, tasks |-> tk]
        ELSE IF ~q.ok
        THEN [next |-> "send_queue_full", outcome |-> "queue_full",
              manager |-> m, chat_service |-> a.chat_service, tasks |-> tk]
        ELSE IF g.error
        THEN [next |-> "send_general_error", outcome |-> "exception",
              manager |-> m, chat_service |-> a.chat_service, tasks |-> tk]
        ELSE [next |-> "receive", outcome |-> "accepted",
              manager |-> g.manager, chat_service |-> p.chat_service, tasks |-> p.tasks]

\* lines 114-154: from the frame returned by receive_text to the next await
handle_frame(m, cs, tk, session_id, payload, id, t) ==
    IF ~payload.valid
    THEN [next |-> "send_general_error", outcome |-> "exception",
          manager |-> m, chat_service |-> cs, tasks |-> tk]
    ELSE
    LET chat_message == ChatMessage([frame |-> id, chunk |-> 0], session_id)
        a == can_accept_message(cs, session_id, t)
        q == queue_message(a.chat_service, chat_message)
        g == get_or_create_model(m, session_id, payload.model)
        p == start_processing_task(q.chat_service, tk, session_id, g.model, id)
    IN  IF ~a.ok
        THEN [next |-> "send_backpressure", outcome |-> "backpressure_applied",
              manager |-> m, chat_service |-> a.chat_service, tasks |-> tk]
        ELSE IF ~q.ok
        THEN [next |-> "send_queue_full", outcome |-> "queue_full",
              manager |-> m, chat_service |-> q.chat_service, tasks |-> tk]
        ELSE IF g.error
        THEN [next |-> "send_general_error", outcome |-> "exception",
              manager |-> m, chat_service |-> q.chat_service, tasks |-> tk]
        ELSE [next |-> "receive", outcome |-> "accepted",
              manager |-> g.manager, chat_service |-> p.chat_service, tasks |-> p.tasks]

(***************************************************************************)
(* The gateway passthrough (routes/openrouter_websocket): the one          *)
(* OpenRouterService of the process and the /openrouter sockets.           *)
(* openrouter_service.session is                                           *)
(*   none     _session is None                                             *)
(*   open     _session is a ClientSession                                  *)
(*   closed   _session is a ClientSession whose close() has been called    *)
(* conn[c].st is the await the handler of socket c is suspended in:        *)
(*   idle      no handler (socket not connected)                           *)
(*   receive   websocket.receive_text()                                    *)
(*   post      entering `async with self._session.post(...)`               *)
(*   stream    the next line of response.content                           *)
(*   cleanup   self._session.close() inside cleanup()                      *)
(* conn[c].peer says whether the client still holds the connection open.   *)
(* lines are the lines read for the request in hand, events the events     *)
(* process_request has yielded for it and full_response, final_metadata    *)
(* the accumulator of process_request.                                     *)
(* released says that a handler has ended since this socket connected, and *)
(* rejoined that a socket has connected since then.                        *)
(***************************************************************************)
Conns == {"c1", "c2"}

MaxRequests == 2

MaxLines == 3

\* OpenRouterService(config)
OpenRouterService == [session |-> "none", request_id |-> 0]

NoHandler ==
    [st |-> "idle", peer |-> "open", lines |-> <<>>, events |-> <<>>,
     full_response |-> <<>>, final_metadata |-> EmptyDict,
     released |-> FALSE, rejoined |-> FALSE]

NoResponse == [status |-> 0, body |-> "-"]

NoStep ==
    [conn |-> "-", op |-> "-", response |-> NoResponse, line |-> <<>>,
     yielded |-> <<>>, sent |-> <<>>, outcome |-> "-"]

(***************************************************************************)
(* The start of the process (main.py): the imports of lines 12-18, then    *)
(* create_application and setup_routers.  boot.flag is ENDPOINT_ACTIVE of  *)
(* weather_controller.py and boot.faults says, for each prefix, whether    *)
(* configure_router or include_router raises for it.  boot.pc is           *)
(*   not_started, import, setup_routers (the loop, at position boot.i),    *)
(*   serving (create_application has returned the app) or exited.          *)
(***************************************************************************)
Prefixes == {"/auth", "/weather", "/health", "/websockets"}

Faults == [Prefixes -> {"ok", "configure_router", "include_router"}]

NotStarted ==
    [pc |-> "not_started", flag |-> TRUE, faults |-> [x \in Prefixes |-> "ok"],
     i |-> 0, mounted |-> <<>>, status |-> 0]

(***************************************************************************)
(* POST /weatherAlerts (routes/weather).  weather.state is the `state` of  *)
(* the request body, a sequence of characters; weather.calls the GET       *)
(* requests made to api.weather.gov, each by its `area` parameter;         *)
(* weather.upstream what the service answers (a failure, or a number of    *)
(* features), if called; weather.status, detail, features and total_records the HTTP  *)
(* answer of the route.                                                    *)
(***************************************************************************)
MaxStateLen == 3

MaxAlerts == 2

NoAnswer == [ok |-> FALSE, features |-> 0]

NoRequest ==
    [state |-> <<>>, accepted |-> FALSE, calls |-> <<>>, upstream |-> NoAnswer,
     status |-> 0, detail |-> "-", features |-> 0, total_records |-> 0]

(***************************************************************************)
(* POST /token (internal/auth/auth_controller.py).  auth is the last login *)
(* and its answer: the submitted username, password and scope list         *)
(* (form_data.scopes, the scope field split at blanks), auth.entitled the  *)
(* scopes the user store grants that user, and the status, detail, headers *)
(* and token of the answer.  A token is the pair of claims it encodes.     *)
(***************************************************************************)
MaxScopes == 2

NoToken == [issued |-> FALSE, sub |-> "-", scopes |-> <<>>]

NoLogin ==
    [username |-> "-", password |-> "-", scopes |-> <<>>, entitled |-> {},
     status |-> 0, detail |-> "-", headers |-> <<>>, token |-> NoToken]

(***************************************************************************)
(* WebSocketStateService (openrouter_service.py): connections maps a       *)
(* connection id to its record; it starts empty.                           *)
(***************************************************************************)
WebSocketStateService == [connections |-> <<>>]

(***************************************************************************)
(* Initial state: a fresh process, an empty datastore, clock at 0.         *)
(***************************************************************************)
NoAcquire ==
    [kind |-> "none", ok |-> FALSE, t |-> 0, k |-> 0, pure |-> FALSE,
     mkind |-> "created", mt |-> 0, mtokens |-> 0]

NoCall == [op |-> "none", ok |-> FALSE, message |-> None, before |-> <<>>, nput |-> 0]

Init ==
    /\ manager = [active_connections |-> EmptyDict, session_models |-> EmptyDict]
    /\ chat_service = [message_queues |-> EmptyDict, rate_limiters |-> EmptyDict,
                       processing_tasks |-> EmptyDict, chat_histories |-> {}]
    /\ tasks = EmptyDict
    /\ sock = [w \in Sockets |-> IdleSock]
    /\ frames = <<>>
    /\ wire = NoWire
    /\ now = 0
    /\ db = {}
    /\ nextId = 1
    /\ lim = RateLimiter(SessionRate, SessionCapacity, 0)
    /\ mark = [kind |-> "created", t |-> 0, tokens |-> SessionCapacity * TicksPerSecond,
               bt |-> 0, k |-> 0, pure |-> TRUE]
    /\ lastAcq = NoAcquire
    /\ mq = <<>>
    /\ accepted = <<>>
    /\ got = <<>>
    /\ qres = NoCall
    /\ nadds = [s \in Sessions |-> 0]
    /\ ever = [s \in Sessions |-> {}]
    /\ line = <<>>
    /\ parsed = None
    /\ openrouter_service = OpenRouterService
    /\ conn = [c \in Conns |-> NoHandler]
    /\ posted = 0
    /\ nread = 0
    /\ call = NoStep
    /\ boot = NotStarted
    /\ weather = NoRequest
    /\ auth = NoLogin
    /\ state_service = WebSocketStateService

\* a client opens /chat/{s}: accept, then ConnectionManager.connect
Connect(w, s) ==
    /\ sock[w].st = "idle"
    /\ s \in Routes(w)
    /\ LET c == connect(manager, chat_service, w, s, now)
       IN  /\ manager' = c.manager
           /\ chat_service' = c.chat_service
    /\ sock' = [sock EXCEPT ![w] = [IdleSock EXCEPT !.st = "receive", !.session_id = s]]
    /\ wire' = NoWire
    /\ UNCHANGED <<tasks, frames, now, db, nextId, compVars, gatewayVars, appVars>>

\* receive_text returns a frame
ReceiveFrame(w, payload) ==
    /\ sock[w].st = "receive"
    /\ sock[w].peer = "open"
    /\ Len(frames) < MaxFrames
    /\ LET r == handle_frame(manager, chat_service, tasks, sock[w].session_id,
                             payload, Len(frames) + 1, now)
       IN  /\ manager' = r.manager
           /\ chat_service' = r.chat_service
           /\ tasks' = r.tasks
           /\ sock' = [sock EXCEPT ![w].st = r.next]
           /\ frames' = Append(frames, [outcome |-> r.outcome, model |-> payload.model])
    /\ wire' = NoWire
    /\ UNCHANGED <<now, db, nextId, compVars, gatewayVars, appVars>>

\* the client closes the connection
ClientClose(w) ==
    /\ sock[w].st \notin {"idle", "aborted"}
    /\ sock[w].peer = "open"
    /\ sock' = [sock EXCEPT ![w].peer = "closed"]
    /\ wire' = NoWire
    /\ UNCHANGED <<manager, chat_service, tasks, frames, now, db, nextId, compVars, gatewayVars, appVars>>

\* a disconnect that also deletes the rows of the session
Deregister_clear_history(w) ==
    LET d == disconnect(manager, chat_service, tasks, w, sock[w].session_id)
    IN  /\ manager' = d.manager
        /\ chat_service' = d.chat_service
        /\ tasks' = d.tasks
        /\ sock' = [sock EXCEPT ![w] = IdleSock]
        /\ db' = IF sock[w].session_id \in DOMAIN d.manager.active_connections
                 THEN db ELSE clear(db, sock[w].session_id)

\* the handler leaves: ConnectionManager.disconnect, then the route returns
Deregister(w) ==
    LET d == disconnect(manager, chat_service, tasks, w, sock[w].session_id)
    IN  /\ manager' = d.manager
        /\ chat_service' = d.chat_service
        /\ tasks' = d.tasks
        /\ sock' = [sock EXCEPT ![w] = IdleSock]
        /\ db' = db                          \* the rows are left alone

\* lines 156-157: receive_text raises WebSocketDisconnect
ReceiveDisconnect(w) ==
    /\ sock[w].st = "receive"
    /\ sock[w].peer = "closed"
    /\ Deregister(w)
    /\ wire' = NoWire
    /\ UNCHANGED <<frames, now, nextId, compVars, gatewayVars, appVars>>

\* lines 130-136 and 140-146: the send of a backpressure / queue-full response
\* ends; the loop continues, or the exception of the send is handled
SendError(w) ==
    /\ sock[w].st \in {"send_backpressure", "send_queue_full"}
    /\ \E o \in SendOutcomes(sock[w].peer) :
        CASE o = "delivered" ->
                /\ wire' = ChatResponse(w, sock[w].session_id,
                                     IF sock[w].st = "send_backpressure"
                                     THEN "backpressure_applied" ELSE "queue_full",
                                     NoContent)
                /\ sock' = [sock EXCEPT ![w].st = "receive"]
                /\ UNCHANGED <<manager, chat_service, tasks, db>>
          [] o = "dropped" ->
                /\ wire' = NoWire
                /\ sock' = [sock EXCEPT ![w].st = "receive"]
                /\ UNCHANGED <<manager, chat_service, tasks, db>>
          [] o = "disconnect" ->
                /\ wire' = NoWire
                /\ Deregister(w)
          [] o = "error" ->
                /\ wire' = NoWire
                /\ sock' = [sock EXCEPT ![w].st = "send_general_error"]
                /\ UNCHANGED <<manager, chat_service, tasks, db>>
    /\ UNCHANGED <<frames, now, nextId, compVars, gatewayVars, appVars>>

\* lines 158-165: the send of the general_error response ends; then disconnect,
\* unless the send raised, which ends the handler at once
SendGeneralError(w) ==
    /\ sock[w].st = "send_general_error"
    /\ \E o \in SendOutcomes(sock[w].peer) :
        CASE o = "delivered" ->
                /\ wire' = ChatResponse(w, sock[w].session_id, "general_error", NoContent)
                /\ Deregister(w)
          [] o = "dropped" ->
                /\ wire' = NoWire
                /\ Deregister(w)
          [] o \in {"disconnect", "error"} ->
                /\ wire' = NoWire
                /\ sock' = [sock EXCEPT ![w].st = "aborted"]
                /\ UNCHANGED <<manager, chat_service, tasks, db>>
    /\ UNCHANGED <<frames, now, nextId, compVars, gatewayVars, appVars>>

(***************************************************************************)
(* process_queued_messages (chat_service.py 170-246): one task per         *)
(* start_processing_task.  tasks[t].pc is the await the task is suspended  *)
(* in:                                                                     *)
(*   loop             not yet run, or asyncio.sleep(0.1) on an empty queue *)
(*   stream           the next chunk of model.astream                      *)
(*   broadcast        send_text of a chunk response inside the callback    *)
(*   error_broadcast  send_text of the queue_processing_error response     *)
(*   end              the coroutine is over                                *)
(* cur is the socket of the pending send, sent the sockets already served  *)
(* by the running `for connection in ...` loop and size the length of the  *)
(* set when the loop started (a Python set iterator raises RuntimeError    *)
(* when the set's length has changed since).                               *)
(***************************************************************************)
Running(t) == t \in DOMAIN tasks /\ tasks[t].state = "running"

\* the coroutine returns
Return(rec) == Ended(rec, "finished")

\* an exception escapes the coroutine
Escape(rec) == Ended(rec, "crashed")

\* broadcast_to_session returns (lines 86-91)
BroadcastDone(rec) ==
    IF rec.pc = "error_broadcast"
    THEN Return(rec)
    ELSE [rec EXCEPT !.pc = "stream", !.cur = NoSocket, !.sent = {}, !.size = 0]

\* broadcast_to_session sending to the sockets of every session
broadcast_to_all(rec, m, kind) ==
    LET started == [rec EXCEPT !.pc = kind]
        everyone == UNION {m.active_connections[x] : x \in DOMAIN m.active_connections}
    IN  IF everyone = {}
        THEN {BroadcastDone(started)}
        ELSE {[started EXCEPT !.cur = w, !.sent = {}, !.size = Cardinality(everyone)]
                : w \in everyone}

\* broadcast_to_session is entered (lines 86-91): the task records it may be
\* suspended in next, one per socket the set iterator may yield first
broadcast_to_session(rec, m, kind) ==
    LET started == [rec EXCEPT !.pc = kind]
    IN  IF rec.session_id \notin DOMAIN m.active_connections
           \/ m.active_connections[rec.session_id] = {}
        THEN {BroadcastDone(started)}
        ELSE {[started EXCEPT !.cur = w, !.sent = {},
                              !.size = Cardinality(m.active_connections[rec.session_id])]
                : w \in m.active_connections[rec.session_id]}

\* an exception is raised inside the try block (lines 239-246): the error
\* response is broadcast; raised inside the except block, it escapes
Raise(rec, m) ==
    IF rec.pc = "error_broadcast"
    THEN {Escape(rec)}
    ELSE broadcast_to_session(rec, m, "error_broadcast")

\* the set iterator is asked for the next socket after a send has returned
NextConnection(rec, m) ==
    LET conns == IF rec.session_id \in DOMAIN m.active_connections
                 THEN m.active_connections[rec.session_id] ELSE {}
        sent == rec.sent \cup {rec.cur}
    IN  IF Cardinality(conns) # rec.size
        THEN Raise(rec, m)                   \* Set changed size during iteration
        ELSE IF conns \ sent = {}
        THEN {BroadcastDone(rec)}
        ELSE {[rec EXCEPT !.cur = w, !.sent = sent] : w \in conns \ sent}

\* lines 190-211: the head of the loop, up to the await of the first chunk
poll(cs, tk, t) ==
    LET rec == tk[t]
    IN  IF rec.session_id \notin DOMAIN cs.message_queues
        THEN [chat_service |-> cs, tasks |-> [tk EXCEPT ![t] = Return(rec)]]
        ELSE LET r == get(cs.message_queues[rec.session_id])
             IN  IF r.message = None
                 THEN [chat_service |-> cs, tasks |-> [tk EXCEPT ![t].pc = "loop"]]
                 ELSE [chat_service |->
                           [cs EXCEPT !.message_queues[rec.session_id] = r.queue],
                       tasks |-> [tk EXCEPT ![t].pc = "stream",
                                            ![t].message = r.message,
                                            ![t].last_response = None]]

\* the task runs from the top of the loop (a poll of an empty queue only
\* goes back to sleep and is left out)
ConsumerPoll(t) ==
    /\ Running(t)
    /\ tasks[t].pc = "loop"
    /\ tasks[t].session_id \in DOMAIN chat_service.message_queues
            => chat_service.message_queues[tasks[t].session_id] # <<>>
    /\ LET r == poll(chat_service, tasks, t)
       IN  /\ chat_service' = r.chat_service
           /\ tasks' = r.tasks
    /\ wire' = NoWire
    /\ UNCHANGED <<manager, sock, frames, now, db, nextId, compVars, gatewayVars, appVars>>

\* the chunks the running stream has yielded (chunks are numbered)
Chunks(rec) == IF rec.last_response = None THEN 0 ELSE rec.last_response.chunk

\* lines 214-230: astream yields a chunk, the callback starts to broadcast it
ConsumerChunk(t) ==
    /\ Running(t)
    /\ tasks[t].pc = "stream"
    /\ Chunks(tasks[t]) < MaxChunks
    /\ LET chunk == [frame |-> tasks[t].message.content.frame,
                     chunk |-> Chunks(tasks[t]) + 1]
           rec == [tasks[t] EXCEPT !.last_response = chunk]
       IN  \E next \in broadcast_to_session(rec, manager, "broadcast") :
               tasks' = [tasks EXCEPT ![t] = next]
    /\ wire' = NoWire
    /\ UNCHANGED <<manager, chat_service, sock, frames, now, db, nextId, compVars, gatewayVars, appVars>>

\* the response the callback is sending
Response(rec, to) ==
    IF rec.pc = "error_broadcast"
    THEN ChatResponse(to, rec.session_id, "queue_processing_error", NoContent)
    ELSE ChatResponse(to, rec.session_id, "none", rec.last_response)

\* lines 90-91: a send_text of the broadcast ends, the loop goes on
ConsumerSendDone(t) ==
    /\ Running(t)
    /\ tasks[t].pc \in {"broadcast", "error_broadcast"}
    /\ \E o \in SendOutcomes(sock[tasks[t].cur].peer) :
        /\ wire' = IF o = "delivered" THEN Response(tasks[t], tasks[t].cur) ELSE NoWire
        /\ \E next \in (IF o \in {"disconnect", "error"}
                        THEN Raise(tasks[t], manager)
                        ELSE NextConnection(tasks[t], manager)) :
               tasks' = [tasks EXCEPT ![t] = next]
    /\ UNCHANGED <<manager, chat_service, sock, frames, now, db, nextId, compVars, gatewayVars, appVars>>

\* lines 232-237, then 190-211: the stream is exhausted, the human message and
\* the last response are stored, and the loop runs again up to its next await
ConsumerStreamEnd(t) ==
    /\ Running(t)
    /\ tasks[t].pc = "stream"
    /\ LET rec == tasks[t]
           has_ai == rec.last_response # None
       IN  /\ \E d1 \in add_message(db, rec.session_id, "human", rec.message.content,
                                    nextId, now, MaxMessages) :
                 IF has_ai
                 THEN \E d2 \in add_message(d1, rec.session_id, "ai", rec.last_response,
                                            nextId + 1, now, MaxMessages) : db' = d2
                 ELSE db' = d1
           /\ nextId' = IF has_ai THEN nextId + 2 ELSE nextId + 1
           /\ LET r == poll(chat_service,
                            [tasks EXCEPT ![t].message = None, ![t].last_response = None], t)
              IN  /\ chat_service' = r.chat_service
                  /\ tasks' = r.tasks
    /\ wire' = NoWire
    /\ UNCHANGED <<manager, sock, frames, now, compVars, gatewayVars, appVars>>

\* the model call raises (lines 214-217): the except block reports it
ConsumerFail(t) ==
    /\ Running(t)
    /\ tasks[t].pc = "stream"
    /\ \E next \in Raise(tasks[t], manager) : tasks' = [tasks EXCEPT ![t] = next]
    /\ wire' = NoWire
    /\ UNCHANGED <<manager, chat_service, sock, frames, now, db, nextId, compVars, gatewayVars, appVars>>

\* one second passes
Tick ==
    /\ now + TicksPerSecond <= MaxSeconds * TicksPerSecond
    /\ now' = now + TicksPerSecond
    /\ wire' = NoWire
    /\ UNCHANGED <<manager, chat_service, tasks, sock, frames, db, nextId, compVars, gatewayVars, appVars>>

Next ==
    \/ \E w \in Sockets, s \in Sessions : Connect(w, s)
    \/ \E w \in Sockets, payload \in Payloads : ReceiveFrame(w, payload)
    \/ \E w \in Sockets : ClientClose(w)
    \/ \E w \in Sockets : ReceiveDisconnect(w)
    \/ \E w \in Sockets : SendError(w)
    \/ \E w \in Sockets : SendGeneralError(w)
    \/ \E t \in DOMAIN tasks : ConsumerPoll(t)
    \/ \E t \in DOMAIN tasks : ConsumerChunk(t)
    \/ \E t \in DOMAIN tasks : ConsumerSendDone(t)
    \/ \E t \in DOMAIN tasks : ConsumerStreamEnd(t)
    \/ \E t \in DOMAIN tasks : ConsumerFail(t)
    \/ Tick

Spec == Init /\ [][Next]_vars

(***************************************************************************)
(* SpecLive: the chat server when no model call fails, under the           *)
(* scheduling of the event loop: a task or handler that can run its next   *)
(* step (a consumer at the head of its loop with a message waiting, a      *)
(* stream that yields or ends, a send that completes, a handler whose      *)
(* receive has a disconnect to report) eventually runs it.  Clients are    *)
(* under no obligation: they connect, send and close as they please.       *)
(***************************************************************************)
ConsumerStep(t) ==
    \/ ConsumerPoll(t)
    \/ ConsumerChunk(t)
    \/ ConsumerSendDone(t)
    \/ ConsumerStreamEnd(t)

HandlerStep(w) ==
    \/ ReceiveDisconnect(w)
    \/ SendError(w)
    \/ SendGeneralError(w)

NextLive ==
    \/ \E w \in Sockets, s \in Sessions : Connect(w, s)
    \/ \E w \in Sockets, payload \in Payloads : ReceiveFrame(w, payload)
    \/ \E w \in Sockets : ClientClose(w)
    \/ \E w \in Sockets : HandlerStep(w)
    \/ \E t \in 1..MaxFrames : ConsumerStep(t)
    \/ Tick

SpecLive ==
    /\ Init
    /\ [][NextLive]_vars
    /\ \A t \in 1..MaxFrames : WF_vars(ConsumerStep(t))
    /\ \A w \in Sockets : WF_vars(HandlerStep(w))

(***************************************************************************)
(* SpecModels: the chat server with frames that name two different         *)
(* enumerated models (and one that is not enumerated), so that a later     *)
(* frame of a session can ask for another model than the cached one.       *)
(***************************************************************************)
CODESTRAL_2501 == "mistralai/codestral-2501"

PayloadsModels == Payloads \cup {[valid |-> TRUE, model |-> CODESTRAL_2501]}

NextModels ==
    \/ \E w \in Sockets, s \in Sessions : Connect(w, s)
    \/ \E w \in Sockets, payload \in PayloadsModels : ReceiveFrame(w, payload)
    \/ \E w \in Sockets : ClientClose(w)
    \/ \E w \in Sockets : HandlerStep(w)
    \/ \E t \in 1..MaxFrames : ConsumerStep(t)
    \/ \E t \in DOMAIN tasks : ConsumerFail(t)
    \/ Tick

SpecModels == Init /\ [][NextModels]_vars

(***************************************************************************)
(* SpecLimiter: one RateLimiter(rate=2.0, capacity=5) under a clock that   *)
(* advances; acquire() is called at arbitrary instants.  `mark` remembers  *)
(* the limiter right after its creation or its last failed acquire, and    *)
(* the acquisitions made since (k of them, all at instant bt when pure).   *)
(***************************************************************************)
LimTick ==
    /\ now < LimMaxTime
    /\ now' = now + 1
    /\ UNCHANGED <<db, nextId, compVars, mainVars, gatewayVars, appVars>>

LimAcquire ==
    LET r == acquire(lim, now)
        pure == mark.pure /\ (mark.k = 0 \/ mark.bt = now)
    IN  /\ lim' = r.lim
        /\ lastAcq' = [kind |-> "acquire", ok |-> r.ok, t |-> now, k |-> mark.k,
                       pure |-> pure, mkind |-> mark.kind, mt |-> mark.t,
                       mtokens |-> mark.tokens]
        /\ mark' = IF r.ok
                   THEN [mark EXCEPT !.bt = now, !.k = @ + 1, !.pure = pure]
                   ELSE [kind |-> "failed", t |-> now, tokens |-> r.lim.tokens,
                         bt |-> now, k |-> 0, pure |-> TRUE]
        /\ UNCHANGED <<mainVars, now, db, nextId, mq, accepted, got, qres, nadds, ever, gatewayVars, appVars>>

NextLimiter == LimTick \/ LimAcquire

SpecLimiter == Init /\ [][NextLimiter]_vars

(***************************************************************************)
(* SpecWallClock: the same limiter read against time.time(), the wall      *)
(* clock of the host, which an adjustment of the system time (NTP, an      *)
(* operator) can set back between two calls.                               *)
(***************************************************************************)
ClockSetBack ==
    /\ now > 0
    /\ \E t \in 0..(now - 1) : now' = t
    /\ UNCHANGED <<db, nextId, compVars, mainVars, gatewayVars, appVars>>

NextWallClock == LimTick \/ ClockSetBack \/ LimAcquire

SpecWallClock == Init /\ [][NextWallClock]_vars

(***************************************************************************)
(* SpecQueue: one MessageQueue(maxsize=QueueMaxsize); put and get are      *)
(* called in any order.  Messages are numbered by put call.                *)
(***************************************************************************)
QueuePut ==
    LET m == ChatMessage(qres.nput + 1, "s1")
        r == put(mq, QueueMaxsize, m)
    IN  /\ qres.nput < MaxPuts
        /\ mq' = r.queue
        /\ accepted' = IF r.ok THEN Append(accepted, m) ELSE accepted
        /\ qres' = [op |-> "put", ok |-> r.ok, message |-> m, before |-> mq,
                    nput |-> qres.nput + 1]
        /\ UNCHANGED <<mainVars, now, db, nextId, lim, mark, lastAcq, got, nadds, ever, gatewayVars, appVars>>

QueueGet ==
    LET r == get(mq)
    IN  /\ mq' = r.queue
        /\ got' = IF r.message = None THEN got ELSE Append(got, r.message)
        /\ qres' = [op |-> "get", ok |-> r.message # None, message |-> r.message,
                    before |-> mq, nput |-> qres.nput]
        /\ UNCHANGED <<mainVars, now, db, nextId, lim, mark, lastAcq, accepted, nadds, ever, gatewayVars, appVars>>

NextQueue == QueuePut \/ QueueGet

SpecQueue == Init /\ [][NextQueue]_vars

(***************************************************************************)
(* SpecHistory: SQLiteChatMessageHistory handles of the sessions on one    *)
(* datastore file, all with max_messages = MaxMessages.                    *)
(***************************************************************************)
HistAdd(s, role) ==
    /\ nextId <= HistMaxRows
    /\ \E d \in add_message(db, s, role, nextId, nextId, now, MaxMessages) : db' = d
    /\ nextId' = nextId + 1
    /\ nadds' = [nadds EXCEPT ![s] = @ + 1]
    /\ ever' = [ever EXCEPT ![s] = @ \cup {nextId}]
    /\ UNCHANGED <<mainVars, now, lim, mark, lastAcq, mq, accepted, got, qres, gatewayVars, appVars>>

HistClear(s) ==
    /\ db' = clear(db, s)
    /\ nadds' = [nadds EXCEPT ![s] = 0]
    /\ ever' = [ever EXCEPT ![s] = {}]
    /\ UNCHANGED <<mainVars, now, nextId, lim, mark, lastAcq, mq, accepted, got, qres, gatewayVars, appVars>>

HistTick ==
    /\ now + TicksPerSecond <= HistMaxSeconds * TicksPerSecond
    /\ now' = now + TicksPerSecond
    /\ UNCHANGED <<db, nextId, compVars, mainVars, gatewayVars, appVars>>

NextHistory ==
    \/ \E s \in Sessions, role \in Roles : HistAdd(s, role)
    \/ \E s \in Sessions : HistClear(s)
    \/ HistTick

SpecHistory == Init /\ [][NextHistory]_vars

(***************************************************************************)
(* OpenRouterService._parse_sse_line (openrouter_service.py 50-95).        *)
(* A line is a sequence of characters.  str.strip() removes the leading    *)
(* and trailing whitespace, str.startswith compares a prefix and line[k:]  *)
(* drops the first k characters.  json.loads is modelled on the texts the  *)
(* lines below can carry: it decodes the object texts "{}" and "{ }" (to   *)
(* the same value), the number text "1" and three completion chunks, and   *)
(* raises JSONDecodeError for every other text, the empty one included.    *)
(* The chunk texts are abbreviated:                                        *)
(*   {a}   {"choices": [{"delta": {"content": "a"}}]}                      *)
(*   {b.}  {"choices": [{"delta": {"content": "b"},                        *)
(*                       "finish_reason": "stop"}]}                        *)
(*   {.}   {"choices": [{"delta": {}, "finish_reason": "stop"}]}           *)
(* A decoded string is the sequence of its characters.                     *)
(***************************************************************************)
Whitespace == {" ", "\n"}

strip(s) ==
    LET inked == {i \in 1..Len(s) : s[i] \notin Whitespace}
    IN  IF inked = {} THEN <<>>
        ELSE SubSeq(s, CHOOSE i \in inked : \A j \in inked : i <= j,
                       CHOOSE i \in inked : \A j \in inked : i >= j)

startswith(s, prefix) ==
    Len(s) >= Len(prefix) /\ SubSeq(s, 1, Len(prefix)) = prefix

\* Python's s[k:]
SliceFrom(s, k) == SubSeq(s, k + 1, Len(s))

CommentPrefix == <<":", " ">>
DataPrefix == <<"d", "a", "t", "a", ":", " ">>
DoneText == <<"[", "D", "O", "N", "E", "]">>

JSONDecodeError == [raised |-> "JSONDecodeError"]

json_loads(text) ==
    CASE text = <<"{", "}">>      -> [object |-> EmptyDict]
      [] text = <<"{", " ", "}">> -> [object |-> EmptyDict]
      [] text = <<"1">>           -> [number |-> 1]
      [] text = <<"{", "a", "}">> ->
             [object |-> [choices |-> <<[delta |-> [content |-> <<"a">>]]>>]]
      [] text = <<"{", "b", ".", "}">> ->
             [object |-> [choices |-> <<[delta |-> [content |-> <<"b">>],
                                         finish_reason |-> <<"s", "t", "o", "p">>]>>]]
      [] text = <<"{", ".", "}">> ->
             [object |-> [choices |-> <<[delta |-> EmptyDict,
                                         finish_reason |-> <<"s", "t", "o", "p">>]>>]]
      [] OTHER                    -> JSONDecodeError

ProcessingEvent(message) == [type |-> "processing", message |-> message]
DoneEvent == [type |-> "done"]
CompletionLine(data) == [type |-> "completion", data |-> data]
ParseError == [type |-> "error", message |-> <<"Error parsing response">>]

\* the parser with the payload compared and decoded untrimmed
parse_sse_line_untrimmed(l) ==
    IF strip(l) = <<>> THEN None
    ELSE IF startswith(l, CommentPrefix)
         THEN ProcessingEvent(SliceFrom(l, 2))
    ELSE IF startswith(l, DataPrefix)
         THEN LET data_str == SliceFrom(l, 6)
              IN  IF data_str = DoneText THEN DoneEvent
                  ELSE IF json_loads(data_str) = JSONDecodeError THEN ParseError
                  ELSE CompletionLine(json_loads(data_str))
    ELSE None

parse_sse_line(l) ==
    IF strip(l) = <<>> THEN None
    ELSE IF startswith(l, CommentPrefix)
         THEN ProcessingEvent(strip(SliceFrom(l, 2)))
    ELSE IF startswith(l, DataPrefix)
         THEN LET data_str == strip(SliceFrom(l, 6))
              IN  IF data_str = DoneText THEN DoneEvent
                  ELSE IF json_loads(data_str) = JSONDecodeError THEN ParseError
                  ELSE CompletionLine(json_loads(data_str))
    ELSE None

(***************************************************************************)
(* SpecSse: _parse_sse_line applied to one line after another.  The lines  *)
(* are a start, a body and an ending, each possibly empty.                 *)
(***************************************************************************)
LineStarts ==
    { <<>>, <<" ">>, <<":">>, CommentPrefix, <<" ">> \o CommentPrefix,
      DataPrefix, <<" ">> \o DataPrefix, <<"d", "a", "t", "a", ":">>,
      DataPrefix \o <<" ">> }

LineBodies ==
    { <<>>, DoneText, <<"{", "}">>, <<"{", " ", "}">>, <<"1">>, <<"{">>,
      <<"O", "K">>, DoneText \o <<"1">> }

LineEndings == { <<>>, <<"\n">>, <<" ", "\n">> }

SseLines == {a \o b \o c : a \in LineStarts, b \in LineBodies, c \in LineEndings}

ParseLine ==
    \E l \in SseLines :
        /\ line' = l
        /\ parsed' = parse_sse_line(l)
        /\ UNCHANGED <<mainVars, now, db, nextId, compVars, handlerVars, appVars>>

NextSse == ParseLine

SpecSse == Init /\ [][NextSse]_vars

(***************************************************************************)
(* OpenRouterService.initialize, cleanup and process_request               *)
(* (openrouter_service.py 20-31, 97-183).                                  *)
(***************************************************************************)
initialize(service) ==
    IF service.session = "none" THEN [service EXCEPT !.session = "open"]
    ELSE service

NotInitialized == [type |-> "error", message |-> <<"Service not initialized">>]
ApiError(error_text) ==
    [type |-> "error", message |-> <<"OpenRouter API error: ", error_text>>]
InternalError == [type |-> "error", message |-> <<"Internal error">>]
InvalidJson == [type |-> "error", message |-> <<"Invalid JSON format">>]
FrameError == [type |-> "error", message |-> <<"Error processing message">>]

CompletionEvent(full_response, final_metadata) ==
    [type |-> "completion",
     data |-> [full_response |-> full_response, meta |-> final_metadata]]

\* parsed["data"]["choices"][0]["delta"] can be evaluated
HasDelta(data) ==
    /\ "object" \in DOMAIN data
    /\ "choices" \in DOMAIN data.object
    /\ Len(data.object.choices) >= 1
    /\ "delta" \in DOMAIN data.object.choices[1]

\* parsed["data"]["choices"][0]["delta"].get("content", "")
delta_content(data) ==
    LET delta == data.object.choices[1].delta
    IN  IF "content" \in DOMAIN delta THEN delta.content ELSE <<>>

\* parsed["data"]["choices"][0].get("finish_reason"), as a truth value
finish_reason(data) ==
    /\ "finish_reason" \in DOMAIN data.object.choices[1]
    /\ data.object.choices[1].finish_reason # <<>>

Gateway == [status : {200}, body : {"-"}]
               \cup [status : {429}, body : {"rate limited"}]
               \cup [status : {502}, body : {"bad gateway"}]

\* the lines a 200 response can hold
StreamLines ==
    { <<"\n">>,
      CommentPrefix \o <<"O", "K", "\n">>,
      DataPrefix \o <<"{", "a", "}", "\n">>,
      DataPrefix \o <<"{", "b", ".", "}", "\n">>,
      DataPrefix \o <<"{", ".", "}", "\n">>,
      DataPrefix \o <<"{", "\n">>,
      DataPrefix \o <<"{", "}", "\n">>,
      DataPrefix \o DoneText \o <<"\n">> }

\* the body of `async for line in response.content` with every completion
\* line emitted at once
process_line_eager(h, l) ==
    LET p == parse_sse_line(l)
    IN  IF p = None THEN [h |-> h, yielded |-> <<>>, raised |-> FALSE]
        ELSE IF p.type = "completion"
             THEN IF ~HasDelta(p.data)
                  THEN [h |-> h, yielded |-> <<>>, raised |-> TRUE]
                  ELSE [h |-> [h EXCEPT !.full_response = <<>>,
                                        !.final_metadata = EmptyDict],
                        yielded |-> <<CompletionEvent(
                                        h.full_response \o delta_content(p.data),
                                        p.data)>>,
                        raised |-> FALSE]
        ELSE [h |-> h, yielded |-> <<p>>, raised |-> FALSE]

\* the body of the loop skipping a completion line it cannot read
process_line_skip_malformed(h, l) ==
    LET p == parse_sse_line(l)
    IN  IF p = None THEN [h |-> h, yielded |-> <<>>, raised |-> FALSE]
        ELSE IF p.type = "completion"
             THEN IF ~HasDelta(p.data)
                  THEN [h |-> h, yielded |-> <<>>, raised |-> FALSE]
                  ELSE LET full == h.full_response \o delta_content(p.data)
                       IN  IF finish_reason(p.data)
                           THEN [h |-> [h EXCEPT !.full_response = <<>>,
                                                 !.final_metadata = EmptyDict],
                                 yielded |-> <<CompletionEvent(full, p.data)>>,
                                 raised |-> FALSE]
                           ELSE [h |-> [h EXCEPT !.full_response = full,
                                                 !.final_metadata = p.data],
                                 yielded |-> <<>>, raised |-> FALSE]
        ELSE [h |-> h, yielded |-> <<p>>, raised |-> FALSE]

\* the body of `async for line in response.content` (lines 140-173)
process_line(h, l) ==
    LET p == parse_sse_line(l)
    IN  IF p = None THEN [h |-> h, yielded |-> <<>>, raised |-> FALSE]
        ELSE IF p.type = "completion"
             THEN IF ~HasDelta(p.data)
                  THEN [h |-> h, yielded |-> <<>>, raised |-> TRUE]
                  ELSE LET full == h.full_response \o delta_content(p.data)
                       IN  IF finish_reason(p.data)
                           THEN [h |-> [h EXCEPT !.full_response = <<>>,
                                                 !.final_metadata = EmptyDict],
                                 yielded |-> <<CompletionEvent(full, p.data)>>,
                                 raised |-> FALSE]
                           ELSE [h |-> [h EXCEPT !.full_response = full,
                                                 !.final_metadata = p.data],
                                 yielded |-> <<>>, raised |-> FALSE]
        ELSE [h |-> h, yielded |-> <<p>>, raised |-> FALSE]

(***************************************************************************)
(* openrouter_websocket_endpoint                                           *)
(* (openrouter_websocket_controller.py 35-98).  Every event that           *)
(* process_request yields is sent with websocket.send_json before the      *)
(* generator is resumed; a step below runs up to the next await that can   *)
(* suspend for long (a frame, the gateway, close()), the send included.    *)
(* call says what the last step was: the socket, the operation, the        *)
(* gateway response it saw, the stream line it handled, the events         *)
(* process_request yielded in it, the events that reached the client and   *)
(* the outcome of the send.                                                *)
(***************************************************************************)
Step(c, op) ==
    [conn |-> c, op |-> op, response |-> NoResponse, line |-> <<>>,
     yielded |-> <<>>, sent |-> <<>>, outcome |-> "-"]

\* a handler has ended: the sockets that stay see the service released
Released(cs, c) ==
    [d \in Conns |->
        IF d = c THEN NoHandler
        ELSE IF cs[d].st = "idle" THEN cs[d]
        ELSE [cs[d] EXCEPT !.released = TRUE, !.rejoined = FALSE]]

\* a socket has connected and run initialize()
Rejoined(cs, c) ==
    [d \in Conns |->
        IF d = c THEN [NoHandler EXCEPT !.st = "receive"]
        ELSE IF cs[d].released THEN [cs[d] EXCEPT !.rejoined = TRUE]
        ELSE cs[d]]

\* the request in hand is over: the handler is back at receive_text()
ToReceive(h) ==
    [h EXCEPT !.st = "receive", !.lines = <<>>, !.events = <<>>,
              !.full_response = <<>>, !.final_metadata = EmptyDict]

\* cleanup() that leaves the session to the sockets still connected
cleanup_shared(service, cs, c) ==
    IF \E d \in Conns \ {c} : cs[d].st # "idle"
    THEN {[service |-> service, conn |-> Released(cs, c)]}
    ELSE {[service |-> [service EXCEPT !.session = "none"],
           conn |-> Released(cs, c)]}

\* cleanup() (openrouter_service.py 26-31) up to the end of the handler, or
\* up to its suspension in close(): the states it can leave
cleanup(service, cs, c) ==
    IF service.session = "none"
    THEN {[service |-> service, conn |-> Released(cs, c)]}
    ELSE {[service |-> [service EXCEPT !.session = "none"],
           conn |-> Released(cs, c)],
          [service |-> [service EXCEPT !.session = "closed"],
           conn |-> [cs EXCEPT ![c] = [ToReceive(@) EXCEPT !.st = "cleanup"]]]}

\* what follows send_json(response) at line 74 (lines 77-89): the loop goes
\* on, or WebSocketDisconnect breaks it and the finally clause runs, or
\* another exception is answered with an error event (whose own failure is
\* swallowed) and the loop goes on
after_send(service, cs, c, o) ==
    CASE o \in {"delivered", "dropped"} -> {[service |-> service, conn |-> cs]}
      [] o = "disconnect" -> cleanup(service, cs, c)
      [] o = "error" ->
             {[service |-> service, conn |-> [cs EXCEPT ![c] = ToReceive(@)]]}

\* a step of the handler of c that leaves the service and the sockets as
\* (service, cs) if the event it sends, if any, is delivered
Reply(c, op, response, l, service, cs, yielded) ==
    IF yielded = <<>>
    THEN /\ openrouter_service' = service
         /\ conn' = cs
         /\ call' = [Step(c, op) EXCEPT !.response = response, !.line = l]
    ELSE \E o \in SendOutcomes(conn[c].peer) :
         \E r \in after_send(service, cs, c, o) :
             /\ openrouter_service' = r.service
             /\ conn' = r.conn
             /\ call' = [conn |-> c, op |-> op, response |-> response,
                         line |-> l, yielded |-> yielded,
                         sent |-> IF o = "delivered" THEN yielded ELSE <<>>,
                         outcome |-> o]

(***************************************************************************)
(* WebSocketStateService, the connection-state map the controller module   *)
(* creates next to the gateway service.  Its three methods, on the map and *)
(* the current time.  The handler openrouter_websocket_endpoint calls none *)
(* of them: its connection_id is used in log lines only, so no handler     *)
(* step changes state_service.                                             *)
(***************************************************************************)
WebSocketStateModel(connection_id, t) ==
    [connection_id |-> connection_id, connected_at |-> t, last_activity |-> t,
     total_messages |-> 0]

create_connection(service, connection_id, t) ==
    [service EXCEPT !.connections =
        [k \in DOMAIN @ \cup {connection_id} |->
            IF k = connection_id THEN WebSocketStateModel(connection_id, t) ELSE @[k]]]

update_activity(service, connection_id, t) ==
    IF connection_id \in DOMAIN service.connections
    THEN [service EXCEPT !.connections[connection_id].last_activity = t,
                         !.connections[connection_id].total_messages = @ + 1]
    ELSE service

remove_connection(service, connection_id) ==
    IF connection_id \in DOMAIN service.connections
    THEN [service EXCEPT !.connections =
             [k \in DOMAIN @ \ {connection_id} |-> @[k]]]
    ELSE service

\* websocket.accept(); openrouter_service.initialize()
GwConnect(c) ==
    /\ conn[c].st = "idle"
    /\ openrouter_service' = initialize(openrouter_service)
    /\ conn' = Rejoined(conn, c)
    /\ call' = Step(c, "connect")
    /\ UNCHANGED <<posted, nread>>
    /\ UNCHANGED <<mainVars, now, db, nextId, compVars, sseVars, appVars>>

\* the client closes the connection
GwClientClose(c) ==
    /\ conn[c].st \in {"receive", "post", "stream"}
    /\ conn[c].peer = "open"
    /\ conn' = [conn EXCEPT ![c].peer = "closed"]
    /\ call' = Step(c, "client_close")
    /\ UNCHANGED <<openrouter_service, posted, nread>>
    /\ UNCHANGED <<mainVars, now, db, nextId, compVars, sseVars, appVars>>

\* the handler answering an invalid frame and then calling process_request
\* all the same
invalid_frame_forwarded(service) ==
    [service |-> [service EXCEPT !.request_id = @ + 1], posted |-> 1]

\* lines 57-68 for a text that json.loads rejects: process_request is not
\* called
invalid_frame(service) == [service |-> service, posted |-> 0]

\* receive_text() returns a text that is not JSON
GwInvalidFrame(c) ==
    /\ conn[c].st = "receive"
    /\ LET r == invalid_frame(openrouter_service)
       IN  /\ r.service.request_id <= MaxRequests
           /\ posted' = posted + r.posted
           /\ \E o \in SendOutcomes(conn[c].peer) :
              \E a \in after_send(r.service, conn, c, o) :
                  /\ openrouter_service' = a.service
                  /\ conn' = a.conn
                  /\ call' = [Step(c, "invalid") EXCEPT
                                 !.sent = IF o = "delivered"
                                          THEN <<InvalidJson>> ELSE <<>>,
                                 !.outcome = o]
    /\ UNCHANGED nread
    /\ UNCHANGED <<mainVars, now, db, nextId, compVars, sseVars, appVars>>

\* receive_text() raises an exception that is not WebSocketDisconnect (a
\* binary frame has no "text"; a connection that the server stack has marked
\* closed after a failed send raises RuntimeError): lines 80-89.  The error
\* event is sent from the except clause, where a failure of the send is
\* swallowed, and the loop goes on
GwReceiveError(c) ==
    /\ conn[c].st = "receive"
    /\ \E o \in SendOutcomes(conn[c].peer) :
           call' = [Step(c, "receive_error") EXCEPT
                       !.sent = IF o = "delivered" THEN <<FrameError>> ELSE <<>>,
                       !.outcome = o]
    /\ UNCHANGED <<openrouter_service, conn, posted, nread>>
    /\ UNCHANGED <<mainVars, now, db, nextId, compVars, sseVars, appVars>>

\* process_request without its test of self._session
begin_request_unchecked(service) ==
    [service |-> [service EXCEPT !.request_id = @ + 1], st |-> "post",
     yielded |-> <<>>, posted |-> 1]

\* process_request up to its first await (lines 102-122)
begin_request(service) ==
    IF service.session = "none"
    THEN [service |-> service, st |-> "receive",
          yielded |-> <<NotInitialized>>, posted |-> 0]
    ELSE IF service.session = "closed"
    THEN \* ClientSession.post on a closed session raises
         [service |-> [service EXCEPT !.request_id = @ + 1], st |-> "receive",
          yielded |-> <<InternalError>>, posted |-> 0]
    ELSE [service |-> [service EXCEPT !.request_id = @ + 1], st |-> "post",
          yielded |-> <<>>, posted |-> 1]

\* receive_text() returns a JSON text; process_request(data) is started
GwRequest(c) ==
    /\ conn[c].st = "receive"
    /\ LET r == begin_request(openrouter_service)
       IN  /\ r.service.request_id <= MaxRequests
           /\ posted' = posted + r.posted
           /\ Reply(c, "request", NoResponse, <<>>, r.service,
                    [conn EXCEPT ![c].st = r.st], r.yielded)
    /\ UNCHANGED nread
    /\ UNCHANGED <<mainVars, now, db, nextId, compVars, sseVars, appVars>>

\* the gateway's response has arrived (lines 123-138)
on_response(h, response) ==
    IF response.status # 200
    THEN [h |-> ToReceive(h), yielded |-> <<ApiError(response.body)>>]
    ELSE [h |-> [h EXCEPT !.st = "stream"], yielded |-> <<>>]

GwResponse(c) ==
    /\ conn[c].st = "post"
    /\ \E response \in Gateway :
           LET r == on_response(conn[c], response)
           IN  Reply(c, "response", response, <<>>, openrouter_service,
                     [conn EXCEPT ![c] = r.h], r.yielded)
    /\ UNCHANGED <<posted, nread>>
    /\ UNCHANGED <<mainVars, now, db, nextId, compVars, sseVars, appVars>>

\* one line of the stream is read and handled
GwLine(c) ==
    /\ conn[c].st = "stream"
    /\ nread < MaxLines
    /\ \E l \in StreamLines :
           LET r == process_line(conn[c], l)
               h == [r.h EXCEPT !.lines = Append(@, l)]
           IN  IF r.raised
               THEN Reply(c, "line", NoResponse, l, openrouter_service,
                          [conn EXCEPT ![c] = ToReceive(h)], <<InternalError>>)
               ELSE Reply(c, "line", NoResponse, l, openrouter_service,
                          [conn EXCEPT ![c] = [h EXCEPT !.events = @ \o r.yielded]],
                          r.yielded)
    /\ nread' = nread + 1
    /\ UNCHANGED posted
    /\ UNCHANGED <<mainVars, now, db, nextId, compVars, sseVars, appVars>>

\* response.content is exhausted: process_request returns
GwStreamEnd(c) ==
    /\ conn[c].st = "stream"
    /\ conn' = [conn EXCEPT ![c] = ToReceive(@)]
    /\ call' = Step(c, "stream_end")
    /\ UNCHANGED <<openrouter_service, posted, nread>>
    /\ UNCHANGED <<mainVars, now, db, nextId, compVars, sseVars, appVars>>

\* the post or the read of the next line raises (lines 178-183)
GwFail(c) ==
    /\ conn[c].st \in {"post", "stream"}
    /\ Reply(c, "fail", NoResponse, <<>>, openrouter_service,
             [conn EXCEPT ![c] = ToReceive(@)], <<InternalError>>)
    /\ UNCHANGED <<posted, nread>>
    /\ UNCHANGED <<mainVars, now, db, nextId, compVars, sseVars, appVars>>

\* receive_text() raises WebSocketDisconnect: the loop is left and the
\* finally clause runs
GwDisconnect(c) ==
    /\ conn[c].st = "receive"
    /\ conn[c].peer = "closed"
    /\ \E r \in cleanup(openrouter_service, conn, c) :
           /\ openrouter_service' = r.service
           /\ conn' = r.conn
    /\ call' = Step(c, "disconnect")
    /\ UNCHANGED <<posted, nread>>
    /\ UNCHANGED <<mainVars, now, db, nextId, compVars, sseVars, appVars>>

\* close() returns: self._session = None, and the handler ends
GwCleanupDone(c) ==
    /\ conn[c].st = "cleanup"
    /\ openrouter_service' = [openrouter_service EXCEPT !.session = "none"]
    /\ conn' = Released(conn, c)
    /\ call' = Step(c, "cleanup_done")
    /\ UNCHANGED <<posted, nread>>
    /\ UNCHANGED <<mainVars, now, db, nextId, compVars, sseVars, appVars>>

NextGateway ==
    \/ \E c \in Conns : GwConnect(c)
    \/ \E c \in Conns : GwClientClose(c)
    \/ \E c \in Conns : GwInvalidFrame(c)
    \/ \E c \in Conns : GwReceiveError(c)
    \/ \E c \in Conns : GwRequest(c)
    \/ \E c \in Conns : GwResponse(c)
    \/ \E c \in Conns : GwLine(c)
    \/ \E c \in Conns : GwStreamEnd(c)
    \/ \E c \in Conns : GwFail(c)
    \/ \E c \in Conns : GwDisconnect(c)
    \/ \E c \in Conns : GwCleanupDone(c)

SpecGateway == Init /\ [][NextGateway]_vars

(***************************************************************************)
(* SpecGatewayLive: the /openrouter handlers under the scheduling of the   *)
(* event loop.  A handler whose pending await can complete is eventually   *)
(* resumed: the gateway answers, the stream yields a line, ends or fails,  *)
(* close() returns, and receive_text() returns or raises once the client   *)
(* has closed the connection.  Which of its outcomes an await has is not   *)
(* a matter of scheduling, and clients are under no obligation.            *)
(***************************************************************************)
GwHandlerStep(c) ==
    \/ /\ conn[c].peer = "closed"
       /\ \/ GwDisconnect(c)
          \/ GwReceiveError(c)
          \/ GwInvalidFrame(c)
          \/ GwRequest(c)
    \/ GwResponse(c)
    \/ GwLine(c)
    \/ GwStreamEnd(c)
    \/ GwFail(c)
    \/ GwCleanupDone(c)

SpecGatewayLive == SpecGateway /\ \A c \in Conns : WF_vars(GwHandlerStep(c))

(***************************************************************************)
(* main.py 12-18, 43-94 and weather_controller.py 16-21.                   *)
(***************************************************************************)
\* Python's `...`
Ellipsis == [ellipsis |-> TRUE]

RouterConfig(router, prefix) == [router |-> router, prefix |-> prefix]

\* router_configs of setup_routers (lines 48-54)
router_configs(flag) ==
    << RouterConfig("auth_router", "/auth"),
       IF flag THEN RouterConfig("weather_router", "/weather") ELSE Ellipsis,
       RouterConfig("healthcheck_router", "/health"),
       RouterConfig("chat_websocket_router", "/websockets") >>

\* exit(1), or an exception that escapes the import of main.py
Exited(b) == [b EXCEPT !.pc = "exited", !.status = 1]

\* the names weather_controller.py defines (lines 16-21)
weather_controller(flag) ==
    IF flag THEN {"ENDPOINT_ACTIVE", "router"} ELSE {"ENDPOINT_ACTIVE"}

\* lines 12-18 and 80: `from routes.weather.weather_controller import
\* ENDPOINT_ACTIVE, router` raises ImportError when a name is missing
import_main(b) ==
    IF {"ENDPOINT_ACTIVE", "router"} \subseteq weather_controller(b.flag)
    THEN [b EXCEPT !.pc = "setup_routers", !.i = 1]
    ELSE Exited(b)

\* an iteration of the loop that logs a failed mount and goes on
mount_next_lenient(b) ==
    LET config == router_configs(b.flag)[b.i]
    IN  IF config = Ellipsis \/ b.faults[config.prefix] # "ok"
        THEN [b EXCEPT !.i = @ + 1]
        ELSE [b EXCEPT !.i = @ + 1, !.mounted = Append(@, config.prefix)]

\* one iteration of `for router, prefix, tags in router_configs` (lines
\* 56-72) with create_application's except clause (lines 85-88): unpacking
\* `...` raises TypeError, a failed mount raises RuntimeError, and either
\* one ends in exit(1)
mount_next(b) ==
    LET config == router_configs(b.flag)[b.i]
    IN  IF config = Ellipsis THEN Exited(b)
        ELSE IF b.faults[config.prefix] # "ok" THEN Exited(b)
        ELSE [b EXCEPT !.i = @ + 1, !.mounted = Append(@, config.prefix)]

\* python main.py (or the server importing main)
Launch ==
    /\ boot.pc = "not_started"
    /\ \E flag \in BOOLEAN, faults \in Faults :
           boot' = [boot EXCEPT !.pc = "import", !.flag = flag, !.faults = faults]
    /\ UNCHANGED <<mainVars, now, db, nextId, compVars, gatewayVars, weather,
                 auth, state_service>>

ImportMain ==
    /\ boot.pc = "import"
    /\ boot' = import_main(boot)
    /\ UNCHANGED <<mainVars, now, db, nextId, compVars, gatewayVars, weather,
                 auth, state_service>>

MountRouter ==
    /\ boot.pc = "setup_routers"
    /\ boot.i <= Len(router_configs(boot.flag))
    /\ boot' = mount_next(boot)
    /\ UNCHANGED <<mainVars, now, db, nextId, compVars, gatewayVars, weather,
                 auth, state_service>>

\* setup_routers returns and create_application returns app (lines 84, 90)
ReturnApp ==
    /\ boot.pc = "setup_routers"
    /\ boot.i > Len(router_configs(boot.flag))
    /\ boot' = [boot EXCEPT !.pc = "serving"]
    /\ UNCHANGED <<mainVars, now, db, nextId, compVars, gatewayVars, weather,
                 auth, state_service>>

NextStartup == Launch \/ ImportMain \/ MountRouter \/ ReturnApp

SpecStartup == Init /\ [][NextStartup]_vars

(***************************************************************************)
(* weather_model.py 14-25, weather_service.py 6-33 and                     *)
(* weather_controller.py 30-52.                                            *)
(***************************************************************************)
StateChars == {"T", "N", "t", "1", "\n"}

\* the characters of the class [A-Z]
UpperCase == {"T", "N"}

States == UNION {[1..n -> StateChars] : n \in 0..MaxStateLen}

\* re.match(r"^[A-Z]{2}$", value): two characters of the class from the
\* start, then `$`, which matches at the end of the string and also just
\* before a newline that ends the string
re_match(value) ==
    /\ Len(value) >= 2
    /\ value[1] \in UpperCase /\ value[2] \in UpperCase
    /\ \/ Len(value) = 2
       \/ Len(value) = 3 /\ value[3] = "\n"

\* IncomingWeatherAlertQuery.validate_state: TRUE when no ValueError is raised
validate_state(value) == re_match(value)

\* what api.weather.gov may do with a GET: the request or the decoding fails
\* (httpx error, raise_for_status, missing "features"), or it returns a list
Upstream == {NoAnswer} \cup [ok : {TRUE}, features : 0..MaxAlerts]

\* fetch_weather_alerts (weather_service.py 6-33)
fetch_weather_alerts(state, upstream) ==
    IF ~upstream.ok
    THEN [raised |-> TRUE, calls |-> <<[area |-> state]>>, features |-> 0,
          total_records |-> 0]
    ELSE [raised |-> FALSE, calls |-> <<[area |-> state]>>,
          features |-> upstream.features, total_records |-> upstream.features]

\* `not weather_alerts`: the value is a WeatherAlertResponse object, which
\* defines neither __bool__ nor __len__, so it is true whatever it holds
Falsy(weather_alerts) == FALSE

\* weather_alerts (weather_controller.py 30-52); the HTTPException(204)
\* raised inside the try block is caught by its `except Exception`
weather_alerts(state, upstream) ==
    LET r == fetch_weather_alerts(state, upstream)
        base == [NoRequest EXCEPT !.state = state, !.accepted = TRUE,
                                  !.calls = r.calls, !.upstream = upstream]
        failed == [base EXCEPT !.status = 500,
                               !.detail = "Failed to fetch weather alerts."]
    IN  IF r.raised THEN failed
        ELSE IF Falsy(r) THEN failed
        ELSE [base EXCEPT !.status = 200, !.features = r.features,
                          !.total_records = r.total_records]

\* a request with a body {"state": ...} by a caller holding the scope
PostWeatherAlerts ==
    /\ \E state \in States, upstream \in Upstream :
           weather' =
               IF validate_state(state)
               THEN weather_alerts(state, upstream)
               ELSE [NoRequest EXCEPT !.state = state, !.status = 422]
    /\ UNCHANGED <<mainVars, now, db, nextId, compVars, gatewayVars, boot,
                 auth, state_service>>

NextWeather == PostWeatherAlerts

SpecWeather == Init /\ [][NextWeather]_vars

(***************************************************************************)
(* The login route.  auth_service.py is not among the files; the user      *)
(* store and authenticate_user follow the description of the               *)
(* authentication subsystem: a fixed directory of users with a stored      *)
(* password representation, and a lookup that answers "no match" (False)   *)
(* for an unknown username or a password that does not match.              *)
(***************************************************************************)
Usernames == {"johndoe", "alice", "nobody"}

Passwords == {"secret", "guess"}

ScopeStrings == {"weather", "admin", "me"}

\* the scopes a route of this application asks for
KnownScopes == {"weather"}

get_password_hash(password) == <<"hashed", password>>

verify_password(plain_password, hashed_password) ==
    get_password_hash(plain_password) = hashed_password

fake_users_db ==
    [u \in {"johndoe", "alice"} |->
        [username |-> u, hashed_password |-> get_password_hash("secret"),
         disabled |-> FALSE]]

NoMatch == [username |-> "-", hashed_password |-> <<>>, disabled |-> FALSE]

authenticate_user(store, username, password) ==
    IF username \notin DOMAIN store THEN NoMatch
    ELSE IF ~verify_password(password, store[username].hashed_password) THEN NoMatch
    ELSE store[username]

create_access_token(data) == [issued |-> TRUE, sub |-> data.sub, scopes |-> data.scopes]

ScopeLists == UNION {[1..n -> ScopeStrings] : n \in 0..MaxScopes}

login_for_access_token(username, password, scopes) ==
    LET user == authenticate_user(fake_users_db, username, password) IN
    IF user = NoMatch
    THEN [NoLogin EXCEPT !.username = username, !.password = password,
                         !.scopes = scopes, !.status = 401,
                         !.detail = "Incorrect username or password",
                         !.headers = <<"WWW-Authenticate", "Bearer">>]
    ELSE [NoLogin EXCEPT !.username = username, !.password = password,
                         !.scopes = scopes, !.status = 200,
                         !.token = create_access_token(
                                       [sub |-> user.username, scopes |-> scopes])]

\* a login; what the user store grants the user is any set of known scopes
PostToken ==
    /\ \E username \in Usernames, password \in Passwords, scopes \in ScopeLists,
          entitled \in SUBSET KnownScopes :
           auth' = [login_for_access_token(username, password, scopes)
                        EXCEPT !.entitled = IF username \in DOMAIN fake_users_db
                                            THEN entitled ELSE {}]
    /\ UNCHANGED <<mainVars, now, db, nextId, compVars, gatewayVars, boot, weather,
                   state_service>>

NextAuth == PostToken

SpecAuth == Init /\ [][NextAuth]_vars

(***************************************************************************)
(* C1.  In every reachable state and for every session id: ChatService     *)
(* holds a message queue for it exactly when it holds a rate limiter for   *)
(* it, and both exist only while active_connections holds a non-empty      *)
(* socket set for it.                                                      *)
(***************************************************************************)
Attached(s) ==
    s \in DOMAIN manager.active_connections /\ manager.active_connections[s] # {}

TasksOf(s, state) ==
    {t \in DOMAIN tasks : tasks[t].session_id = s /\ tasks[t].state = state}

C1_QueueLimiterWhileAttached ==
    \A s \in Sessions :
        /\ (s \in DOMAIN chat_service.message_queues)
              <=> (s \in DOMAIN chat_service.rate_limiters)
        /\ (s \in DOMAIN chat_service.message_queues) => Attached(s)

\* two sockets hold s1, which has its queue and limiter, while s2 has been
\* used and released (its consumer was cancelled)
C1_Witness ==
    /\ Attached("s1") /\ Cardinality(manager.active_connections["s1"]) = 2
    /\ "s1" \in DOMAIN chat_service.message_queues
    /\ "s1" \in DOMAIN chat_service.rate_limiters
    /\ TasksOf("s2", "cancelled") # {}
    /\ "s2" \notin DOMAIN chat_service.message_queues
    /\ "s2" \notin DOMAIN chat_service.rate_limiters

(***************************************************************************)
(* C2.  A disconnect that removes the last socket of a session leaves no   *)
(* entry of the session in active_connections, session_models,             *)
(* _message_queues, _rate_limiters and _processing_tasks, and the consumer *)
(* task that was registered is cancelled; a disconnect that removes a      *)
(* socket which is not the last one removes none of these entries and      *)
(* does not cancel the consumer.                                           *)
(***************************************************************************)
\* this step takes socket w out of the socket set of session s
Removes(w, s) ==
    /\ s \in DOMAIN manager.active_connections
    /\ w \in manager.active_connections[s]
    /\ ~(s \in DOMAIN manager'.active_connections /\ w \in manager'.active_connections[s])

SessionEntries(m, cs, s) ==
    [connections |-> s \in DOMAIN m.active_connections,
     model |-> IF s \in DOMAIN m.session_models THEN <<m.session_models[s]>> ELSE <<>>,
     queue |-> IF s \in DOMAIN cs.message_queues THEN <<cs.message_queues[s]>> ELSE <<>>,
     limiter |-> IF s \in DOMAIN cs.rate_limiters THEN <<cs.rate_limiters[s]>> ELSE <<>>,
     task |-> IF s \in DOMAIN cs.processing_tasks THEN <<cs.processing_tasks[s]>> ELSE <<>>]

NoEntries ==
    [connections |-> FALSE, model |-> <<>>, queue |-> <<>>, limiter |-> <<>>,
     task |-> <<>>]

C2_DisconnectStep ==
    \A w \in Sockets, s \in Sessions :
        Removes(w, s) =>
            IF manager.active_connections[s] = {w}
            THEN /\ SessionEntries(manager', chat_service', s) = NoEntries
                 /\ s \in DOMAIN chat_service.processing_tasks =>
                        LET t == chat_service.processing_tasks[s]
                        IN  /\ tasks'[t].state # "running"
                            /\ tasks[t].state = "running" => tasks'[t].state = "cancelled"
                 /\ \A t \in DOMAIN tasks :
                        (s \notin DOMAIN chat_service.processing_tasks
                            \/ t # chat_service.processing_tasks[s]) => tasks'[t] = tasks[t]
            ELSE /\ SessionEntries(manager', chat_service', s)
                        = SessionEntries(manager, chat_service, s)
                 /\ manager'.active_connections[s] = manager.active_connections[s] \ {w}
                 /\ tasks' = tasks

C2_Disconnect == [][C2_DisconnectStep]_vars

\* the last socket of a session with a running consumer has left: the consumer
\* is cancelled and every entry of the session is gone
C2_Witness ==
    \E s \in Sessions :
        /\ TasksOf(s, "cancelled") # {}
        /\ SessionEntries(manager, chat_service, s) = NoEntries
        /\ \E w \in Sockets : sock[w].st = "idle"

(***************************************************************************)
(* C3.  cleanup_session leaves the persisted rows of the session alone:    *)
(* from the disconnect of the last socket of a session to the reconnect of *)
(* the session id, the rows of the session, and so the lists the           *)
(* `messages` read may return for it, do not change.                       *)
(***************************************************************************)
C3_RowsKeptStep ==
    \A s \in Sessions :
        (~Attached(s) \/ ~(s \in DOMAIN manager'.active_connections))
            => /\ SessionRows(db', s) = SessionRows(db, s)
               /\ messages(db', s) = messages(db, s)

C3_RowsKept == [][C3_RowsKeptStep]_vars

\* a session whose consumer persisted rows and was then cancelled by the
\* disconnect of the last socket is attached again, before any new frame
C3_Witness ==
    \E s \in Sessions :
        /\ TasksOf(s, "cancelled") # {}
        /\ Attached(s)
        /\ s \notin DOMAIN chat_service.processing_tasks
        /\ chat_service.message_queues[s] = <<>>
        /\ \E r \in SessionRows(db, s) : r.role = "ai"

(***************************************************************************)
(* C4.  Within one session the consumer takes the queued messages in the   *)
(* order they were accepted and persists the human row and then the AI row *)
(* of a message before it takes the next one, so that the `messages` read  *)
(* of the session lists the human/AI pairs in the order the messages were  *)
(* accepted, also when several rows carry the same created_at value.       *)
(***************************************************************************)
\* message a of a read comes before message b in acceptance order
InAcceptOrder(a, b) ==
    \/ a.content.frame < b.content.frame
    \/ a.content.frame = b.content.frame /\ a.type = "human" /\ b.type = "ai"

C4_HistoryInAcceptOrder ==
    \A s \in Sessions :
        \A read \in messages(db, s) :
            \A i, j \in 1..Len(read) : i < j => InAcceptOrder(read[i], read[j])

(***************************************************************************)
(* C5.  start_processing_task creates a consumer task only for a session   *)
(* id that has no entry in _processing_tasks; at any time the only task    *)
(* of a session that can run is the one registered for it, so that at most *)
(* one consumer takes messages from the session's current queue, and a     *)
(* consumer cancelled by cleanup takes no message of the session created   *)
(* by a later reconnect.                                                   *)
(***************************************************************************)
C5_OneRunningConsumer ==
    \A s \in Sessions :
        /\ TasksOf(s, "running") \subseteq
              (IF s \in DOMAIN chat_service.processing_tasks
               THEN {chat_service.processing_tasks[s]} ELSE {})
        /\ Cardinality(TasksOf(s, "running")) <= 1

C5_ConsumerStep ==
    /\ \A t \in DOMAIN tasks' \ DOMAIN tasks :
          /\ tasks'[t].session_id \notin DOMAIN chat_service.processing_tasks
          /\ chat_service'.processing_tasks[tasks'[t].session_id] = t
    /\ \A t \in DOMAIN tasks : tasks[t].state # "running" => tasks'[t] = tasks[t]
    /\ \A s \in Sessions :
          (/\ s \in DOMAIN chat_service.message_queues
           /\ s \in DOMAIN chat_service'.message_queues
           /\ chat_service.message_queues[s] # <<>>
           /\ chat_service'.message_queues[s] = Tail(chat_service.message_queues[s]))
             => /\ s \in DOMAIN chat_service.processing_tasks
                /\ LET t == chat_service.processing_tasks[s]
                   IN  /\ tasks[t].state = "running"
                       /\ tasks'[t].message = Head(chat_service.message_queues[s])
    /\ C5_OneRunningConsumer'

C5_SingleConsumer == [][C5_ConsumerStep]_vars

\* the consumer of a session was cancelled by the last disconnect; after the
\* reconnect a second consumer, the registered one, has taken a message
C5_Witness ==
    \E s \in Sessions :
        /\ TasksOf(s, "cancelled") # {}
        /\ s \in DOMAIN chat_service.processing_tasks
        /\ LET t == chat_service.processing_tasks[s]
           IN  /\ tasks[t].state = "running"
               /\ tasks[t].message # None

(***************************************************************************)
(* C6.  For every inbound frame rejected by the rate limiter or by a full  *)
(* queue: the sending socket receives exactly one error response           *)
(* (backpressure_applied, respectively queue_full), the frame's message is *)
(* not in the queue and is never processed by the consumer, the frame      *)
(* starts no consumer task, and the socket stays registered with its       *)
(* handler receiving the next frame.                                       *)
(***************************************************************************)
Rejections == {"backpressure_applied", "queue_full"}

\* the frames whose message is in a queue, held by a consumer, stored in a
\* row or carried by the response on the wire
FramesInUse ==
    UNION {{chat_service.message_queues[s][i].content.frame :
                i \in 1..Len(chat_service.message_queues[s])} :
              s \in DOMAIN chat_service.message_queues}
      \cup {tasks[t].message.content.frame :
              t \in {x \in DOMAIN tasks : tasks[x].message # None}}
      \cup {tasks[t].last_response.frame :
              t \in {x \in DOMAIN tasks : tasks[x].last_response # None}}
      \cup {r.content.frame : r \in db}
      \cup ({wire.content.frame} \ {0})

\* no rejected frame is queued, processed or answered
RejectedUnused ==
    \A f \in FramesInUse : f \in 1..Len(frames) /\ frames[f].outcome \notin Rejections

\* the step in which the handler of w rejects a frame
RejectStep(w) ==
    /\ sock[w].st = "receive"
    /\ sock'[w].st \in {"send_backpressure", "send_queue_full"}

\* the step in which the send of the error response of w ends
ErrorSentStep(w) ==
    /\ sock[w].st \in {"send_backpressure", "send_queue_full"}
    /\ sock'[w].st # sock[w].st

Rejected(w) ==
    /\ wire' = ChatResponse(w, sock[w].session_id,
                            IF sock[w].st = "send_backpressure"
                            THEN "backpressure_applied" ELSE "queue_full", NoContent)
    /\ sock'[w] = [sock[w] EXCEPT !.st = "receive"]
    /\ Attached(sock[w].session_id)'
    /\ w \in manager'.active_connections[sock[w].session_id]
    /\ UNCHANGED <<manager, chat_service, tasks, db>>

C6_RejectStep(open_only) ==
    /\ \A w \in Sockets :
          RejectStep(w) =>
              /\ frames'[Len(frames')].outcome =
                     (IF sock'[w].st = "send_backpressure"
                      THEN "backpressure_applied" ELSE "queue_full")
              /\ tasks' = tasks
              /\ manager' = manager
              /\ chat_service'.message_queues = chat_service.message_queues
              /\ chat_service'.processing_tasks = chat_service.processing_tasks
              /\ wire' = NoWire
    /\ \A w \in Sockets :
          (ErrorSentStep(w) /\ (open_only => sock[w].peer = "open")) => Rejected(w)
    /\ RejectedUnused'

\* the claim as it stands: whatever the state of the connection
C6_RejectedFrame == [][C6_RejectStep(FALSE)]_vars

\* the claim for a client that still holds the connection open when the error
\* response is sent
C6_RejectedFrameOpen == [][C6_RejectStep(TRUE)]_vars

\* a frame was rejected because the queue was full, its sender has the
\* queue_full response and is receiving again, the queued message is untouched
C6_Witness ==
    \E w \in Sockets :
        /\ wire = ChatResponse(w, sock[w].session_id, "queue_full", NoContent)
        /\ sock[w].st = "receive"
        /\ frames[Len(frames)].outcome = "queue_full"
        /\ Len(chat_service.message_queues[sock[w].session_id]) = SessionQueueMaxsize

(***************************************************************************)
(* C7.  A limiter of capacity 5 and rate 2.0/s: 5 immediate acquires after *)
(* creation succeed and the 6th fails; one second later exactly 2 more     *)
(* succeed and the next fails.  In general, after a failed acquire that    *)
(* left `residual` tokens, a burst of acquires made t seconds later        *)
(* succeeds exactly floor(residual + t*rate) times, at most capacity.      *)
(***************************************************************************)
Allowed(tokens, elapsed) ==
    Min(SessionCapacity, (tokens + elapsed * SessionRate) \div TicksPerSecond)

C7_TokenBucket ==
    (lastAcq.kind = "acquire" /\ lastAcq.pure) =>
        /\ lastAcq.ok = (lastAcq.k + 1 <= Allowed(lastAcq.mtokens, lastAcq.t - lastAcq.mt))
        /\ (lastAcq.mkind = "created" /\ lastAcq.t = 0) => (lastAcq.ok = (lastAcq.k + 1 <= 5))
        /\ (lastAcq.mkind = "failed" /\ lastAcq.mtokens = 0
                /\ lastAcq.t - lastAcq.mt = TicksPerSecond) => (lastAcq.ok = (lastAcq.k + 1 <= 2))

\* 5 acquires at creation succeeded, the 6th failed leaving 0 tokens; one second
\* later 2 succeeded and the third has just failed
C7_Witness ==
    /\ lastAcq.kind = "acquire" /\ lastAcq.pure /\ ~lastAcq.ok
    /\ lastAcq.mkind = "failed" /\ lastAcq.mt = 0 /\ lastAcq.mtokens = 0
    /\ lastAcq.t = TicksPerSecond /\ lastAcq.k = 2

(***************************************************************************)
(* C8.  The queue never holds more than maxsize entries; put appends       *)
(* exactly when fewer than maxsize entries are held, and a put on a full   *)
(* queue fails and changes nothing; get returns the entries in the order   *)
(* their puts succeeded, and None without a change when the queue is empty.*)
(***************************************************************************)
C8_BoundedFifo ==
    /\ Len(mq) <= QueueMaxsize
    /\ qres.op = "put" =>
          /\ qres.ok = (Len(qres.before) < QueueMaxsize)
          /\ mq = IF qres.ok THEN Append(qres.before, qres.message) ELSE qres.before
    /\ qres.op = "get" =>
          IF qres.before = <<>>
          THEN qres.message = None /\ mq = qres.before
          ELSE qres.message = Head(qres.before) /\ mq = Tail(qres.before)
    /\ got \o mq = accepted

\* a put on a full queue has just failed, after an earlier entry was taken out
C8_Witness ==
    /\ qres.op = "put" /\ ~qres.ok /\ Len(qres.before) = QueueMaxsize
    /\ Len(got) >= 1

(***************************************************************************)
(* C9.  After every add_message the session holds at most max_messages     *)
(* rows; n calls on an empty session leave exactly min(n, max_messages).   *)
(***************************************************************************)
C9_RetentionBound ==
    \A s \in Sessions :
        /\ Cardinality(SessionRows(db, s)) <= MaxMessages
        /\ Cardinality(SessionRows(db, s)) = Min(nadds[s], MaxMessages)

\* a session that received more than max_messages rows and was compacted
C9_Witness ==
    \E s \in Sessions :
        nadds[s] > MaxMessages /\ Cardinality(SessionRows(db, s)) = MaxMessages

(***************************************************************************)
(* C10.  The rows the compaction keeps are the max_messages most recently  *)
(* inserted rows of the session (every deleted row was inserted before     *)
(* every kept row), also when rows tie on created_at.                      *)
(***************************************************************************)
C10_KeepsMostRecent ==
    \A s \in Sessions :
        \A r \in SessionRows(db, s) :
            \A i \in ever[s] \ {x.id : x \in SessionRows(db, s)} : i < r.id

(***************************************************************************)
(* C11.  History is isolated per session: add_message (with its            *)
(* compaction) and clear on a session A never change the list the          *)
(* `messages` read returns for another session B of the same datastore     *)
(* file, and no row inserted for A is returned by a read for B.            *)
(***************************************************************************)
\* the step calls neither add_message nor clear on session s, or clears it
\* while it is empty
NotWrittenTo(s) == nadds'[s] = nadds[s]

C11_IsolationStep ==
    /\ \A b \in Sessions :
          NotWrittenTo(b) => /\ SessionRows(db', b) = SessionRows(db, b)
                             /\ messages(db', b) = messages(db, b)
    /\ \A b \in Sessions : \A read \in messages(db', b) :
          \A i \in 1..Len(read) :
              /\ read[i].content \in ever'[b]
              /\ \A a \in Sessions \ {b} : read[i].content \notin ever'[a]

C11_Isolation == [][C11_IsolationStep]_vars

\* one session has been compacted while the other one holds a row
C11_Witness ==
    \E a, b \in Sessions :
        /\ a # b
        /\ nadds[a] > MaxMessages
        /\ \E r \in SessionRows(db, b) : IsChatRole(r)

(***************************************************************************)
(* C12.  Every inbound frame whose `model` is not one of the enumerated    *)
(* identifiers fails with the error 'Model ... is not supported', with or  *)
(* without a cached model handle of the session, and its message is        *)
(* rejected before it is enqueued and before any model call is made for    *)
(* it.                                                                     *)
(***************************************************************************)
\* the frames received with a `model` that is not enumerated
UnsupportedFrames ==
    {f \in 1..Len(frames) :
        frames[f].model # "-" /\ frames[f].model \notin ChatAvailableModels}

C12_UnsupportedModelRejected ==
    \A f \in UnsupportedFrames :
        /\ frames[f].outcome = "exception"
        /\ f \notin FramesInUse

(***************************************************************************)
(* C13.  When the handler catches an exception other than a client         *)
(* disconnect, the client is sent exactly one general_error response and   *)
(* the socket is then removed from the session's connection set (the       *)
(* session is torn down if it was the last socket); on every exit path of  *)
(* the handler the socket is no longer in active_connections.              *)
(***************************************************************************)
Registered(m, w) ==
    \E s \in DOMAIN m.active_connections : w \in m.active_connections[s]

\* the step in which the handler of w ends
HandlerExits(w) ==
    /\ sock[w].st \notin {"idle", "aborted"}
    /\ sock'[w].st \in {"idle", "aborted"}

C13_HandlerExitStep ==
    \A w \in Sockets :
        /\ (sock[w].st = "send_general_error" /\ sock'[w].st # "send_general_error")
              => /\ wire' = ChatResponse(w, sock[w].session_id, "general_error", NoContent)
                 /\ HandlerExits(w)
        /\ HandlerExits(w)
              => /\ ~Registered(manager', w)
                 /\ LET s == sock[w].session_id
                    IN  manager.active_connections[s] = {w}
                            => SessionEntries(manager', chat_service', s) = NoEntries

C13_HandlerExit == [][C13_HandlerExitStep]_vars

(***************************************************************************)
(* C14.  Any failure other than cancellation inside the consumer (model    *)
(* call, history access, or the broadcast callback raising) results in     *)
(* exactly one queue_processing_error response delivered through the       *)
(* callback, after which the consumer ends; the failure never escapes the  *)
(* consumer task as an unhandled exception and never affects the           *)
(* consumer, queue or sockets of another session.                          *)
(***************************************************************************)
\* the step in which an exception is raised inside the try block of task t
FailureStep(t) ==
    /\ tasks[t].state = "running"
    /\ tasks[t].pc \in {"stream", "broadcast"}
    /\ \/ tasks'[t].pc = "error_broadcast"
       \/ tasks'[t].state \in {"finished", "crashed"}
             /\ tasks[t].session_id \in DOMAIN chat_service.message_queues

C14_FailureStep ==
    \A t \in DOMAIN tasks :
        /\ tasks[t].state = "running" => tasks'[t].state # "crashed"
        /\ (tasks[t].state = "running" /\ tasks[t].pc = "error_broadcast"
                /\ tasks'[t].pc # "error_broadcast" /\ tasks'[t].state # "cancelled"
                /\ sock[tasks[t].cur].peer = "open")
              => /\ tasks'[t].state = "finished"
                 /\ wire' = ChatResponse(tasks[t].cur, tasks[t].session_id,
                                         "queue_processing_error", NoContent)
        /\ FailureStep(t)
              => /\ \A u \in DOMAIN tasks \ {t} : tasks'[u] = tasks[u]
                 /\ UNCHANGED <<manager, chat_service, sock>>

C14_ConsumerFailure == [][C14_FailureStep]_vars

(***************************************************************************)
(* C15.  For every message the consumer processes to completion it appends *)
(* one human row whose content is the inbound message text and one ai row  *)
(* whose content is the full accumulated response: the concatenation of    *)
(* the contents of all chunks streamed for the message.                    *)
(***************************************************************************)
\* the text of a content value, as the sequence of the chunk texts it is made
\* of (chunk c of a frame's answer carries the one-piece text <<c>>; the text
\* of the inbound message of a frame is <<0>>)
Text(content) == <<content.chunk>>

\* the concatenation of the texts of chunks 1..n
Accumulated(n) == [i \in 1..n |-> i]

\* the chunks streamed for the message of an ai row: chunks are numbered as
\* they arrive, so the number of the last one
ChunksStreamed(r) == r.content.chunk

C15_FullResponseStored ==
    \A r \in db :
        /\ r.role = "human" => Text(r.content) = <<0>>
        /\ r.role = "ai" => Text(r.content) = Accumulated(ChunksStreamed(r))

(***************************************************************************)
(* C16.  broadcast_to_session delivers the same serialized response to     *)
(* every socket in the session's connection set, also when a send to one   *)
(* of the sockets fails and when sockets of the session connect or         *)
(* disconnect during the broadcast; backpressure and general error         *)
(* responses are sent only to the socket whose frame caused them.          *)
(***************************************************************************)
\* the sockets of session s whose client still holds the connection open
OpenSockets(s) ==
    IF s \in DOMAIN manager.active_connections
    THEN {w \in manager.active_connections[s] : sock[w].peer = "open"}
    ELSE {}

\* the step in which the broadcast that task t is running ends (other than by
\* the cancellation of the task)
BroadcastEnds(t) ==
    /\ tasks[t].state = "running"
    /\ tasks[t].pc = "broadcast"
    /\ tasks'[t].state # "cancelled"
    /\ tasks'[t].pc # "broadcast" \/ tasks'[t].last_response # tasks[t].last_response

C16_BroadcastStep ==
    /\ \A t \in DOMAIN tasks :
          BroadcastEnds(t) =>
              OpenSockets(tasks[t].session_id) \subseteq tasks[t].sent \cup {tasks[t].cur}
    /\ \A t \in DOMAIN tasks :
          (tasks[t].state = "running" /\ tasks[t].pc = "broadcast"
              /\ tasks'[t] # tasks[t] /\ tasks'[t].state # "cancelled"
              /\ sock[tasks[t].cur].peer = "open")
            => wire' = ChatResponse(tasks[t].cur, tasks[t].session_id, "none",
                                    tasks[t].last_response)
    /\ \A w \in Sockets :
          (sock[w].st \in {"send_backpressure", "send_queue_full", "send_general_error"}
              /\ sock'[w].st # sock[w].st)
            => wire' = NoWire \/ wire'.to = w

C16_Broadcast == [][C16_BroadcastStep]_vars

(***************************************************************************)
(* C17.  _parse_sse_line is a total classifier of lines: an empty or       *)
(* whitespace-only line gives no event; a line starting with ": " gives a  *)
(* processing event whose message is the rest of the line, trimmed;        *)
(* "data: [DONE]" gives a done event; "data: " followed by valid JSON      *)
(* gives a completion event carrying the decoded value; "data: " followed  *)
(* by invalid JSON gives an error event; every other line gives no event.  *)
(* Exactly one of these outcomes applies to each line.                     *)
(***************************************************************************)
Blank(l) == \A i \in 1..Len(l) : l[i] \in Whitespace

Payload(l) == strip(SliceFrom(l, Len(DataPrefix)))

LineCases(l) ==
    {c \in {"blank", "comment", "done", "json", "invalid"} :
        \/ c = "blank" /\ Blank(l)
        \/ c = "comment" /\ startswith(l, CommentPrefix)
        \/ c = "done" /\ startswith(l, DataPrefix) /\ Payload(l) = DoneText
        \/ c = "json" /\ startswith(l, DataPrefix)
                      /\ json_loads(Payload(l)) # JSONDecodeError
        \/ c = "invalid" /\ startswith(l, DataPrefix)
                         /\ Payload(l) # DoneText
                         /\ json_loads(Payload(l)) = JSONDecodeError}

Classified(l) ==
    CASE "blank" \in LineCases(l)   -> None
      [] "comment" \in LineCases(l) ->
             ProcessingEvent(strip(SliceFrom(l, Len(CommentPrefix))))
      [] "done" \in LineCases(l)    -> DoneEvent
      [] "json" \in LineCases(l)    -> CompletionLine(json_loads(Payload(l)))
      [] "invalid" \in LineCases(l) -> ParseError
      [] OTHER                      -> None

C17_TotalClassifier ==
    /\ Cardinality(LineCases(line)) <= 1
    /\ parsed = Classified(line)

\* a data line that ends in a newline and carries an object text with inner
\* whitespace has been parsed into a completion event
C17_Witness ==
    /\ line = DataPrefix \o <<"{", " ", "}", "\n">>
    /\ parsed = CompletionLine([object |-> EmptyDict])

(***************************************************************************)
(* C18.  process_request called while the service holds no client session  *)
(* yields exactly one event, the "Service not initialized" error, hands    *)
(* nothing to the gateway and leaves the request id counter as it was.     *)
(* process_request whose gateway response has a status other than 200      *)
(* yields exactly one event, the API error carrying the response body, and *)
(* reads no line of the stream.                                            *)
(***************************************************************************)
C18_NoSessionStep(c) ==
    (/\ call'.conn = c /\ call'.op = "request"
     /\ conn[c].st = "receive"
     /\ openrouter_service.session = "none")
        => /\ call'.yielded = <<NotInitialized>>
           /\ conn'[c].st # "post"
           /\ posted' = posted
           /\ openrouter_service'.request_id = openrouter_service.request_id

C18_ApiErrorStep(c) ==
    (/\ conn[c].st = "post"
     /\ call'.conn = c /\ call'.op = "response"
     /\ call'.response.status # 200)
        => /\ call'.yielded = <<ApiError(call'.response.body)>>
           /\ conn'[c].st \notin {"post", "stream"}
           /\ nread' = nread

C18_EarlyErrorStep ==
    \A c \in Conns : C18_NoSessionStep(c) /\ C18_ApiErrorStep(c)

C18_EarlyErrors == [][C18_EarlyErrorStep]_vars

\* a request has just been answered with the not-initialized error on a
\* service that had handed a request to the gateway before
C18_Witness ==
    /\ call.op = "request"
    /\ call.yielded = <<NotInitialized>>
    /\ openrouter_service = [session |-> "none", request_id |-> 1]
    /\ posted = 1

(***************************************************************************)
(* C19.  While process_request reads a 200 stream: each completion event   *)
(* it has emitted carries as full_response the concatenation, in arrival   *)
(* order, of the delta contents of all completion lines received since the *)
(* previous emitted completion event (or since the start of the stream)    *)
(* and as meta the data object of the line that carried the finish reason; *)
(* the accumulator is empty right after an emission; processing, error and *)
(* done events are forwarded in the order of their lines, unmodified; and  *)
(* no completion event is emitted for a line without a finish reason.      *)
(***************************************************************************)
\* the lines read, each as _parse_sse_line returns it
ParsedLines(ls) == [i \in 1..Len(ls) |-> parse_sse_line(ls[i])]

IsCompletion(p) == p # None /\ p.type = "completion"

Finishes(p) == IsCompletion(p) /\ finish_reason(p.data)

Forwarded(p) == p # None /\ p.type # "completion"

\* the lines (by position) that an event is due for
Emitting(ps) == {i \in 1..Len(ps) : Finishes(ps[i]) \/ Forwarded(ps[i])}

\* the position of the last line before i that carried a finish reason, or 0
PreviousFinish(ps, i) ==
    LET before == {j \in 1..(i - 1) : Finishes(ps[j])}
    IN  IF before = {} THEN 0 ELSE CHOOSE j \in before : \A k \in before : k <= j

RECURSIVE Deltas(_, _, _)
\* the delta contents of the completion lines at positions from+1 .. to
Deltas(ps, from, to) ==
    IF to <= from THEN <<>>
    ELSE Deltas(ps, from, to - 1)
             \o (IF IsCompletion(ps[to]) THEN delta_content(ps[to].data)
                 ELSE <<>>)

EventDue(ps, i) ==
    IF Finishes(ps[i])
    THEN CompletionEvent(Deltas(ps, PreviousFinish(ps, i), i), ps[i].data)
    ELSE ps[i]

\* the n-th smallest element of a set of positions
Nth(S, n) == CHOOSE i \in S : Cardinality({j \in S : j <= i}) = n

EventsDue(ps) ==
    [n \in 1..Cardinality(Emitting(ps)) |-> EventDue(ps, Nth(Emitting(ps), n))]

C19_Accumulation ==
    \A c \in Conns :
        conn[c].st = "stream" =>
            LET ps == ParsedLines(conn[c].lines)
            IN  /\ conn[c].events = EventsDue(ps)
                /\ conn[c].full_response =
                       Deltas(ps, PreviousFinish(ps, Len(ps) + 1), Len(ps))

\* a stream of three chunks, the first and the third with a finish reason:
\* the second completion event carries the contents of the last two only
C19_Witness ==
    \E c \in Conns :
        /\ conn[c].st = "stream"
        /\ conn[c].lines = << DataPrefix \o <<"{", "b", ".", "}", "\n">>,
                              DataPrefix \o <<"{", "a", "}", "\n">>,
                              DataPrefix \o <<"{", "b", ".", "}", "\n">> >>
        /\ Len(conn[c].events) = 2
        /\ conn[c].events[1].data.full_response = <<"b">>
        /\ conn[c].events[2].data.full_response = <<"a", "b">>
        /\ conn[c].full_response = <<>>

(***************************************************************************)
(* C20.  When the handler of one /openrouter socket ends, by any path, the *)
(* client session shared by the whole process is released, even while      *)
(* other sockets are connected; initialize() is not run again for those    *)
(* sockets, so a request received afterwards on a socket that is still     *)
(* connected is answered with the not-initialized error only and is not    *)
(* handed to the gateway.                                                  *)
(* C20_SharedSessionReleased states it for the requests received before    *)
(* any socket has connected since the release, C20_ReleasedForGood for all *)
(* requests received after the release.                                    *)
(***************************************************************************)
HandlerEnds(c) == conn[c].st # "idle" /\ conn'[c].st = "idle"

RequestAfterRelease(c, for_good) ==
    /\ call'.conn = c /\ call'.op = "request"
    /\ conn[c].st = "receive"
    /\ conn[c].released
    /\ for_good \/ ~conn[c].rejoined

C20_ReleaseStep(for_good) ==
    \A c \in Conns :
        /\ HandlerEnds(c) => openrouter_service'.session = "none"
        /\ RequestAfterRelease(c, for_good)
               => /\ call'.yielded = <<NotInitialized>>
                  /\ conn'[c].st # "post"
                  /\ posted' = posted

C20_SharedSessionReleased == [][C20_ReleaseStep(FALSE)]_vars

C20_ReleasedForGood == [][C20_ReleaseStep(TRUE)]_vars

\* a socket that stayed connected while the other one's handler ended, after
\* a request had gone to the gateway, has just been refused a request
C20_Witness ==
    /\ call.op = "request"
    /\ conn[call.conn].released /\ ~conn[call.conn].rejoined
    /\ call.yielded = <<NotInitialized>> /\ call.sent = <<NotInitialized>>
    /\ \E d \in Conns : conn[d].st = "idle"
    /\ posted >= 1

(***************************************************************************)
(* C21.  In the /openrouter handler loop: an inbound frame that is not     *)
(* valid JSON produces exactly one error event to the client and no call   *)
(* of process_request, and the loop continues; an exception other than a   *)
(* client disconnect raised while a frame is handled produces one error    *)
(* event and the loop continues on the same connection; the loop is left   *)
(* only on a client disconnect.                                            *)
(* C21_HandlerLoopOpen states the first two parts for a client that still  *)
(* holds the connection open, C21_HandlerLoop for every client.            *)
(***************************************************************************)
InLoop(h) == h.st \in {"receive", "post", "stream"}

OneErrorEvent(c) ==
    /\ Len(call'.sent) = 1 /\ call'.sent[1].type = "error"
    /\ InLoop(conn'[c])
    /\ conn'[c].peer = conn[c].peer

C21_LoopStep(c, open_only) ==
    /\ (/\ call'.conn = c /\ call'.op = "invalid"
        /\ conn[c].st = "receive"
        /\ open_only => conn[c].peer = "open")
           => /\ call'.sent = <<InvalidJson>>
              /\ conn'[c].st = "receive"
              /\ posted' = posted
              /\ openrouter_service' = openrouter_service
    /\ (/\ call'.conn = c
        /\ InLoop(conn[c])
        /\ call'.op = "receive_error" \/ call'.outcome = "error"
        /\ open_only => conn[c].peer = "open")
           => OneErrorEvent(c)
    /\ (InLoop(conn[c]) /\ ~InLoop(conn'[c]))
           => /\ call'.conn = c
              /\ call'.op = "disconnect" \/ call'.outcome = "disconnect"

C21_HandlerLoopOpen == [][\A c \in Conns : C21_LoopStep(c, TRUE)]_vars

C21_HandlerLoop == [][\A c \in Conns : C21_LoopStep(c, FALSE)]_vars

\* an invalid frame has just been answered on a connection that was used for
\* a request before and is still in its loop
C21_Witness ==
    /\ call.op = "invalid" /\ call.sent = <<InvalidJson>>
    /\ conn[call.conn].st = "receive" /\ conn[call.conn].peer = "open"
    /\ posted = 1

(***************************************************************************)
(* C22.  With the weather feature flag disabled, setup_routers mounts the  *)
(* auth router at /auth, the health router at /health and the              *)
(* chat-websocket router at /websockets, mounts nothing at /weather, and   *)
(* the construction of the application completes; with the flag enabled    *)
(* all four routers are mounted, in the order auth, weather, health,       *)
(* chat-websocket.  (Stated for starts in which no mount raises.)          *)
(***************************************************************************)
NoFault == \A x \in Prefixes : boot.faults[x] = "ok"

C22_RoutersMounted ==
    (boot.pc \in {"serving", "exited"} /\ NoFault)
        => /\ boot.pc = "serving"
           /\ boot.mounted =
                  IF boot.flag
                  THEN <<"/auth", "/weather", "/health", "/websockets">>
                  ELSE <<"/auth", "/health", "/websockets">>

(***************************************************************************)
(* C23.  create_application either returns an application on which every   *)
(* configured router has been mounted, or the process terminates with a    *)
(* non-zero status: when the mount of a router fails, at any position and  *)
(* after any number of successful mounts, no application is returned.      *)
(***************************************************************************)
Configured(flag) ==
    SelectSeq(router_configs(flag), LAMBDA config : config # Ellipsis)

C23_AllOrNothing ==
    /\ boot.pc = "serving"
          => /\ Len(boot.mounted) = Len(Configured(boot.flag))
             /\ \A k \in 1..Len(boot.mounted) :
                    boot.mounted[k] = Configured(boot.flag)[k].prefix
             /\ \A k \in 1..Len(boot.mounted) :
                    boot.faults[boot.mounted[k]] = "ok"
             /\ boot.status = 0
    /\ boot.pc = "exited" => boot.status # 0
    /\ boot.pc = "setup_routers" => Len(boot.mounted) = boot.i - 1

\* the third mount has failed after two routers were mounted: the process
\* has exited with status 1
C23_Witness ==
    /\ boot.pc = "exited" /\ boot.status = 1
    /\ boot.mounted = <<"/auth", "/weather">>
    /\ boot.faults["/health"] = "include_router"

(***************************************************************************)
(* C24.  The weather query accepts a `state` if and only if it consists of *)
(* exactly two uppercase letters and nothing else (a two-letter code       *)
(* followed by a line break is rejected, like "tn", "TEN" and "1A");       *)
(* fetch_weather_alerts makes no outbound call for a rejected value and    *)
(* exactly one, with area equal to the state, for an accepted one.         *)
(***************************************************************************)
TwoUpperCaseLetters(value) ==
    Len(value) = 2 /\ \A k \in 1..2 : value[k] \in UpperCase

C24_StateValidation ==
    weather.status # 0 =>
        /\ weather.accepted <=> TwoUpperCaseLetters(weather.state)
        /\ weather.accepted => weather.calls = <<[area |-> weather.state]>>
        /\ ~weather.accepted => weather.calls = <<>>

(***************************************************************************)
(* C25.  POST /weatherAlerts answers 204 with the detail "Request          *)
(* successful, but no weather alerts found." whenever the upstream call    *)
(* succeeds with an empty features list, 500 "Failed to fetch weather      *)
(* alerts." whenever the fetch fails, and otherwise returns the features   *)
(* with total_records equal to their number; the 204 is never turned into  *)
(* a 500.                                                                  *)
(***************************************************************************)
C25_RouteOutcome ==
    weather.accepted =>
        CASE ~weather.upstream.ok ->
                 /\ weather.status = 500
                 /\ weather.detail = "Failed to fetch weather alerts."
          [] weather.upstream.features = 0 ->
                 /\ weather.status = 204
                 /\ weather.detail =
                        "Request successful, but no weather alerts found."
          [] OTHER ->
                 /\ weather.status = 200
                 /\ weather.features = weather.upstream.features
                 /\ weather.total_records = weather.features

(***************************************************************************)
(* C26.  Every token issued by POST /token carries a scope list that is a  *)
(* subset of the scopes the authenticated user is entitled to, whatever    *)
(* scope strings are requested with valid credentials; a login with an     *)
(* unknown username or a wrong password issues no token and fails with     *)
(* 401, "Incorrect username or password" and WWW-Authenticate: Bearer.     *)
(***************************************************************************)
ValidCredentials ==
    /\ auth.username \in DOMAIN fake_users_db
    /\ auth.password = "secret"

C26_TokenScopes ==
    auth.status # 0 =>
        /\ ValidCredentials =>
               /\ auth.token.issued
               /\ {auth.token.scopes[i] : i \in DOMAIN auth.token.scopes}
                      \subseteq auth.entitled
        /\ ~ValidCredentials =>
               /\ ~auth.token.issued
               /\ auth.status = 401
               /\ auth.detail = "Incorrect username or password"
               /\ auth.headers = <<"WWW-Authenticate", "Bearer">>

(***************************************************************************)
(* C27.  For every /openrouter connection a connection-state record is     *)
(* created when the socket is accepted and removed when the handler exits: *)
(* while a handler runs the map holds a record for its connection, and it  *)
(* holds none for a connection whose handler has exited (the count and the *)
(* activity time of the record follow the frames received).                *)
(***************************************************************************)
HandlerRuns(c) == conn[c].st # "idle"

C27_ConnectionRecords ==
    \A c \in Conns :
        HandlerRuns(c) <=> c \in DOMAIN state_service.connections

(***************************************************************************)
(* C28.  Once the consumer of a session has ended because of a processing  *)
(* failure, and while the session keeps a socket: frames are still put on  *)
(* the session's queue, but start_processing_task starts no new consumer,  *)
(* so no message of the session is dequeued, answered or persisted; the    *)
(* registration of the dead consumer goes away only with the teardown of   *)
(* the session (its last socket leaving), after which a reconnect gets a   *)
(* consumer again.                                                         *)
(***************************************************************************)
ConsumerFailed(s) ==
    /\ s \in DOMAIN chat_service.processing_tasks
    /\ tasks[chat_service.processing_tasks[s]].state \in {"finished", "crashed"}

IsPrefix(q, r) == Len(q) <= Len(r) /\ SubSeq(r, 1, Len(q)) = q

C28_DeadConsumerStep ==
    \A s \in Sessions :
        ConsumerFailed(s) =>
            /\ TasksOf(s, "running")' = {}
            /\ \A t \in DOMAIN tasks' \ DOMAIN tasks : tasks'[t].session_id # s
            /\ s \in DOMAIN chat_service'.processing_tasks
                  => /\ chat_service'.processing_tasks[s] = chat_service.processing_tasks[s]
                     /\ Attached(s)'
                     /\ IsPrefix(chat_service.message_queues[s],
                                 chat_service'.message_queues[s])
            /\ s \notin DOMAIN chat_service'.processing_tasks
                  => /\ ~Attached(s)'
                     /\ s \notin DOMAIN chat_service'.message_queues
            /\ SessionRows(db', s) = SessionRows(db, s)
            /\ ~(wire'.session_id = s /\ wire'.content # NoContent)

C28_NoConsumerAfterFailure == [][C28_DeadConsumerStep]_vars

\* the consumer of a session has ended by a failure, the session still has a
\* socket, and a frame received after the one the consumer took waits in the
\* queue
C28_Witness ==
    \E s \in Sessions :
        /\ ConsumerFailed(s)
        /\ Attached(s)
        /\ chat_service.message_queues[s] # <<>>
        /\ Head(chat_service.message_queues[s]).content.frame
               > chat_service.processing_tasks[s]

\* after the teardown and a reconnect the session has a running consumer
\* again, next to the one that failed
C28_WitnessReconnect ==
    \E s \in Sessions :
        /\ \E t \in DOMAIN tasks :
               tasks[t].session_id = s /\ tasks[t].state \in {"finished", "crashed"}
        /\ TasksOf(s, "running") # {}

(***************************************************************************)
(* C29.  No operation on the process-wide maps has a suspension point      *)
(* between reading or checking a map or set and finishing its use of it:   *)
(* at every suspension point of a broadcast_to_session call, the           *)
(* connection set it is iterating is the set it started to iterate (no     *)
(* socket was added or removed by a connect or disconnect of another task  *)
(* in the middle of the iteration).                                        *)
(***************************************************************************)
Iterating(t) ==
    /\ tasks[t].state = "running"
    /\ tasks[t].pc \in {"broadcast", "error_broadcast"}

C29_NoChangeUnderIteration ==
    \A t \in DOMAIN tasks :
        Iterating(t) =>
            /\ tasks[t].session_id \in DOMAIN manager.active_connections
            /\ Cardinality(manager.active_connections[tasks[t].session_id])
                  = tasks[t].size
            /\ tasks[t].sent \cup {tasks[t].cur}
                  \subseteq manager.active_connections[tasks[t].session_id]

(***************************************************************************)
(* C30.  initialize and cleanup are idempotent, and for every interleaving *)
(* of the initialize, cleanup and process_request calls of concurrent      *)
(* connections the service's session reference is, at every suspension     *)
(* point, either absent or an open session: no handler can find a session  *)
(* that is closed or being closed.                                         *)
(***************************************************************************)
C30_SessionAbsentOrOpen ==
    /\ openrouter_service.session \in {"none", "open"}
    /\ initialize(initialize(openrouter_service)) = initialize(openrouter_service)

(***************************************************************************)
(* C31.  Any exception raised during a process_request exchange (by the    *)
(* post, by the read of the stream, or by the handling of a parsed line,   *)
(* such as a completion payload without a choices list) ends the exchange  *)
(* with exactly one internal-error event as the last event yielded; no     *)
(* further line is processed, and the exception does not reach the caller  *)
(* of process_request.                                                     *)
(***************************************************************************)
\* parsed["data"]["choices"][0]["delta"] raises for the line
Unreadable(l) ==
    LET p == parse_sse_line(l)
    IN  /\ p # None
        /\ p.type = "completion"
        /\ ~HasDelta(p.data)

\* the step is one of the exchange of c in which an exception is raised
RaisedInExchange(c) ==
    /\ call'.conn = c
    /\ \/ call'.op = "fail"
       \/ call'.op = "line" /\ Unreadable(call'.line)
       \/ call'.op = "request" /\ openrouter_service.session = "closed"

C31_ExceptionStep ==
    \A c \in Conns :
        /\ RaisedInExchange(c) =>
              /\ call'.yielded = <<InternalError>>
              /\ conn'[c].st \notin {"post", "stream"}
              /\ conn'[c].lines = <<>> /\ conn'[c].events = <<>>
              /\ \A i \in DOMAIN call'.sent : call'.sent[i] = InternalError
        /\ (call'.conn = c /\ call' # call
               /\ \E i \in DOMAIN call'.yielded : call'.yielded[i] = InternalError)
              => RaisedInExchange(c)

C31_OneInternalError == [][C31_ExceptionStep]_vars

\* a completion line without choices has just ended an exchange with the
\* internal-error event, which reached the client; the handler is back at
\* receive_text()
C31_Witness ==
    /\ call.op = "line"
    /\ Unreadable(call.line)
    /\ call.yielded = <<InternalError>>
    /\ call.sent = <<InternalError>>
    /\ conn[call.conn].st = "receive"

(***************************************************************************)
(* C32.  A consumer cancelled by the teardown of its session while it is   *)
(* streaming the response to a message writes no row for the message,      *)
(* delivers no error response and ends; and the consumer never persists    *)
(* the human row of a message without attempting the matching ai row in    *)
(* the same uninterrupted step.                                            *)
(***************************************************************************)
\* task t is the consumer of a session that the step tears down
TornDown(t) ==
    /\ tasks[t].state = "running"
    /\ tasks[t].session_id \in DOMAIN chat_service.processing_tasks
    /\ chat_service.processing_tasks[tasks[t].session_id] = t
    /\ tasks[t].session_id \notin DOMAIN chat_service'.processing_tasks

MidStream(t) ==
    /\ tasks[t].state = "running"
    /\ tasks[t].pc \in {"stream", "broadcast"}
    /\ tasks[t].message # None

C32_CancelStep ==
    \A t \in DOMAIN tasks :
        /\ TornDown(t) =>
              /\ tasks'[t] = Ended(tasks[t], "cancelled")
              /\ SessionRows(db', tasks[t].session_id)
                    = SessionRows(db, tasks[t].session_id)
              /\ wire'.error # "queue_processing_error"
              /\ wire'.content = NoContent
              /\ nextId' = nextId
        /\ tasks[t].state = "cancelled" => tasks'[t] = tasks[t]

\* add_message calls made by the step: ids are handed out one per call
Adds == nextId' - nextId

\* the step stores a message whose stream has yielded no chunk
StoresUnanswered ==
    \E t \in DOMAIN tasks :
        /\ tasks[t].state = "running" /\ tasks[t].pc = "stream"
        /\ tasks[t].last_response = None
        /\ tasks'[t] # tasks[t]

C32_PersistStep(always_both) ==
    /\ C32_CancelStep
    /\ db' # db => Adds > 0
    /\ Adds \in {0, 2} \/ (~always_both /\ Adds = 1 /\ StoresUnanswered)

DictGet(d, k) == IF k \in DOMAIN d THEN <<d[k]>> ELSE <<>>

\* everything the process holds for session s
SessionState(s) ==
    [connections |-> DictGet(manager.active_connections, s),
     model |-> DictGet(manager.session_models, s),
     queue |-> DictGet(chat_service.message_queues, s),
     limiter |-> DictGet(chat_service.rate_limiters, s),
     task |-> DictGet(chat_service.processing_tasks, s),
     tasks |-> [t \in {u \in DOMAIN tasks : tasks[u].session_id = s} |-> tasks[t]],
     rows |-> SessionRows(db, s)]

\* the socket a broadcast turns to next is taken from the connection set of
\* the session of the task, as the set is when the iterator is asked
TakenFromOwnSet(t) ==
    (/\ tasks'[t].state = "running"
     /\ tasks'[t].cur # NoSocket
     /\ t \in DOMAIN tasks =>
            \/ tasks'[t].cur # tasks[t].cur
            \/ tasks'[t].pc # tasks[t].pc)
        => /\ tasks'[t].session_id \in DOMAIN manager.active_connections
           /\ tasks'[t].cur \in manager.active_connections[tasks'[t].session_id]

\* a response on the wire is the one a broadcast of its session was sending
\* to that socket, or the answer of the handler of a socket of its session
ToOwnSocket ==
    /\ \A t \in DOMAIN tasks' : TakenFromOwnSet(t)
    /\ wire' # NoWire =>
          \/ \E t \in DOMAIN tasks :
                /\ tasks[t].state = "running"
                /\ tasks[t].pc \in {"broadcast", "error_broadcast"}
                /\ tasks[t].cur = wire'.to
                /\ tasks[t].session_id = wire'.session_id
                /\ tasks'[t] # tasks[t]
          \/ /\ sock[wire'.to].session_id = wire'.session_id
             /\ sock[wire'.to].st \in
                   {"send_backpressure", "send_queue_full", "send_general_error"}
             /\ sock'[wire'.to] # sock[wire'.to]

C33_IndependentStep ==
    /\ \A a, b \in Sessions :
          (a # b /\ SessionState(a)' # SessionState(a))
              => SessionState(b)' = SessionState(b)
    /\ ToOwnSocket

C33_SessionsIndependent == [][C33_IndependentStep]_vars

\* two sessions are alive side by side: one has had a message answered and
\* stored, the other has a running consumer
C33_Witness ==
    \E a, b \in Sessions :
        /\ a # b
        /\ Attached(a) /\ Attached(b)
        /\ SessionRows(db, a) # {}
        /\ TasksOf(b, "running") # {}

(***************************************************************************)
(* C34.  In every reachable state of a RateLimiter 0 <= tokens <= capacity *)
(* and, over a sequence of acquire() calls spanning an elapsed time T, at  *)
(* most capacity + rate*T acquisitions succeed, for every sequence of      *)
(* readings of the wall clock the limiter can observe between calls.       *)
(* (Token counts are in units of 1/TicksPerSecond; the acquisitions        *)
(* counted are those made since the creation of the limiter, before its    *)
(* first refusal.)                                                         *)
(***************************************************************************)
C34_TokensInRange ==
    /\ 0 <= lim.tokens
    /\ lim.tokens <= lim.capacity * TicksPerSecond
    /\ mark.kind = "created" =>
           mark.k * TicksPerSecond <= lim.capacity * TicksPerSecond + lim.rate * now

(***************************************************************************)
(* C35.  Liveness: if the message of a chat frame has been accepted into   *)
(* the queue of a session, a socket of the session stays connected and no  *)
(* model call fails, then under fair scheduling the consumer eventually    *)
(* dequeues the message, broadcasts its response and persists its human    *)
(* and ai rows.                                                            *)
(***************************************************************************)
\* the handler accepted frame i and its message waits in the queue of session s
Queued(s, i) ==
    /\ i \in DOMAIN frames
    /\ frames[i].outcome = "accepted"
    /\ s \in DOMAIN chat_service.message_queues
    /\ \E k \in DOMAIN chat_service.message_queues[s] :
           chat_service.message_queues[s][k].content.frame = i

\* the least the claim promises of persistence: the human row of frame i is
\* stored (the ai row follows it in the same step when the stream yielded a
\* chunk, see C32)
Persisted(s, i) ==
    \E r \in SessionRows(db, s) : r.role = "human" /\ r.content.frame = i

\* a socket of session s has gone, or the whole session has
SocketLost(s) ==
    \/ ~Attached(s)
    \/ \E w \in manager.active_connections[s] : sock[w].peer = "closed"

C35_EventuallyPersisted ==
    \A s \in Sessions : \A i \in 1..MaxFrames :
        [](Queued(s, i) => <>(Persisted(s, i) \/ SocketLost(s)))

(***************************************************************************)
(* C36.  While a session stays alive its model handle is the one built     *)
(* from the model named by the first frame that built it: a later frame    *)
(* of the session, whatever model it names and whichever socket sends it,  *)
(* changes neither the cached handle nor the handle of the running         *)
(* consumer, and is not refused for its model; the handle is dropped only  *)
(* when the last socket of the session disconnects.                        *)
(***************************************************************************)
\* this step is the handler of a frame of session s getting past the queue
FrameQueued(s) ==
    /\ Len(frames') = Len(frames) + 1
    /\ s \in DOMAIN chat_service.message_queues
    /\ s \in DOMAIN chat_service'.message_queues
    /\ Len(chat_service'.message_queues[s]) = Len(chat_service.message_queues[s]) + 1

NewFrame == frames'[Len(frames')]

Cached(m, s) == s \in DOMAIN m.session_models

C36_HandleStep ==
    \A s \in Sessions :
        \* a cached handle is never replaced
        /\ Cached(manager, s) /\ Cached(manager', s) =>
               manager'.session_models[s] = manager.session_models[s]
        \* it is built by a frame of the session, from the model of that frame
        /\ ~Cached(manager, s) /\ Cached(manager', s) =>
               /\ FrameQueued(s)
               /\ NewFrame.outcome = "accepted"
               /\ manager'.session_models[s] = NewFrame.model
        \* it is dropped only with the session
        /\ Cached(manager, s) /\ ~Cached(manager', s) =>
               s \notin DOMAIN manager'.active_connections
        \* a later frame is accepted whatever model it names
        /\ Cached(manager, s) /\ FrameQueued(s) => NewFrame.outcome = "accepted"
        \* the consumer of the session holds the cached handle
        /\ \A t \in DOMAIN tasks' :
               tasks'[t].session_id = s /\ tasks'[t].state = "running" =>
                   /\ Cached(manager', s)
                   /\ tasks'[t].model = manager'.session_models[s]

C36_ModelHandleCached == [][C36_HandleStep]_vars

\* a consumer answers the message of a frame that named another enumerated
\* model with the handle cached for its session
C36_Witness ==
    \E t \in DOMAIN tasks :
        /\ tasks[t].state = "running"
        /\ tasks[t].pc = "broadcast"
        /\ tasks[t].message # None
        /\ LET f == frames[tasks[t].message.content.frame]
           IN  /\ f.model \in ChatAvailableModels
               /\ f.model # tasks[t].model
               /\ manager.session_models[tasks[t].session_id] = tasks[t].model

(***************************************************************************)
(* C37.  Termination of the /openrouter handler: once the client has       *)
(* closed the connection, the handler eventually leaves its loop and       *)
(* finishes its cleanup; it does not keep looping on a connection that is  *)
(* gone.  (Handling a frame the client sent before it closed is allowed    *)
(* to come first.)                                                         *)
(***************************************************************************)
\* the last step was the handler of c taking a frame of its client
TookFrame(c) == call.conn = c /\ call.op \in {"invalid", "request"}

C37_HandlerTerminates ==
    \A c \in Conns :
        [](conn[c].peer = "closed" => <>(conn[c].st = "idle" \/ TookFrame(c)))


====
